---- MODULE Spec2Model ----
(***************************************************************************)
(* Verification model of the 2D polygon kernel (Polygons / LinesSet /      *)
(* PartsView) of CuraEngine.  A point is a pair <<x, y>> of integers, a    *)
(* polygon is a sequence of points, a polygon set is a sequence of         *)
(* polygons.  Every operation of the kernel is one action; the receiver    *)
(* set is the variable polys, and the arguments and the returned value of  *)
(* the last operation are recorded in arg and ret.  A behaviour is one     *)
(* call: the initial state holds the set the operation is called on.       *)
(***************************************************************************)
EXTENDS Integers, Sequences, FiniteSets, TLC

VARIABLES
    polys,  \* the receiver PolygonSet (*this)
    prev,   \* the receiver as it was when the last operation was called
    arg,    \* the arguments of the last operation
    ret,    \* the value the last operation returned
    kept,   \* for a filter: the positions of prev copied to the result, in order
    tree,   \* the nesting tree the union returned (parent of every node)
    shape_type, \* LineType::shape_type_ of the set: "Closed" or "Open"
    calls,  \* the number of frames of Polygons::operator=(Polygons&&) on the stack
    op      \* the name of the last operation, "init" before any

vars == <<polys, prev, arg, ret, kept, tree, shape_type, calls, op>>

----------------------------------------------------------------------------
(* Geometry primitives                                                     *)

X(p) == p[1]
Y(p) == p[2]

Abs(n) == IF n < 0 THEN 0 - n ELSE n

Range(s) == {s[i] : i \in 1..Len(s)}

Reverse(s) == [i \in 1..Len(s) |-> s[Len(s) + 1 - i]]

\* C++ integer division truncates toward zero.
TruncDiv(a, b) ==
    IF (a >= 0) = (b > 0) THEN Abs(a) \div Abs(b) ELSE 0 - (Abs(a) \div Abs(b))

vSize2(v) == X(v) * X(v) + Y(v) * Y(v)

dot(a, b) == X(a) * X(b) + Y(a) * Y(b)

Minus(a, b) == <<X(a) - X(b), Y(a) - Y(b)>>

\* llrint(sqrt(n)): the integer nearest to the square root.
RoundSqrt(n) ==
    LET r == CHOOSE k \in 0..n : k * k <= n /\ (k + 1) * (k + 1) > n
    IN  IF n - r * r > r THEN r + 1 ELSE r

vSize(v) == RoundSqrt(vSize2(v))

\* The sequences of length 0..n over S.
SeqUpTo(S, n) == UNION {[1..k -> S] : k \in 0..n}

\* Index of the vertex before i on the closed contour.
PrevIdx(poly, i) == IF i = 1 THEN Len(poly) ELSE i - 1

RECURSIVE SumTo(_, _)
SumTo(f, n) == IF n = 0 THEN 0 ELSE f[n] + SumTo(f, n - 1)

\* Twice ClipperLib::Area: -(sum of (xj + xi) * (yj - yi)); 0 below 3 points.
Area2(poly) ==
    IF Len(poly) < 3 THEN 0
    ELSE 0 - SumTo([i \in 1..Len(poly) |->
                       (X(poly[PrevIdx(poly, i)]) + X(poly[i]))
                     * (Y(poly[PrevIdx(poly, i)]) - Y(poly[i]))], Len(poly))

\* Polygon::length(): the length of the closed contour, edge by edge.
PolyLength(poly) ==
    SumTo([i \in 1..Len(poly) |-> vSize(Minus(poly[i], poly[PrevIdx(poly, i)]))],
          Len(poly))

Rect(x0, y0, x1, y1) == <<(<<x0, y0>>), (<<x1, y0>>), (<<x1, y1>>), (<<x0, y1>>)>>

----------------------------------------------------------------------------
(* Small-feature filtering: removeSmallAreaCircumference                   *)

MaxFilterSet == 3

\* The contours the filters are run on: outlines (counter-clockwise) and
\* holes (clockwise) of several areas and circumferences, and a two-point
\* contour of area 0.
FilterShapes ==
    { Rect(0, 0, 1, 1),            \* outline, area 1, circumference 4
      Rect(0, 0, 3, 3),            \* outline, area 9, circumference 12
      Rect(0, 0, 4, 1),            \* outline, area 4, circumference 10
      Reverse(Rect(1, 1, 2, 2)),   \* hole, area -1, circumference 4
      Reverse(Rect(0, 0, 3, 2)),   \* hole, area -6, circumference 10
      <<(<<0, 0>>), (<<2, 0>>)>> } \* area 0, circumference 4

MinAreas == {0, 2, 5}
MinCircumferences == {0, 6, 11}

\* circumference >= min_circumference_size && std::abs(area) >= min_area_size
PassesThresholds(poly, minArea, minCirc) ==
    PolyLength(poly) >= minCirc /\ Abs(Area2(poly)) >= 2 * minArea

\* A variant of the loop body that never records the removal of an outline.
RSACStepFlagNeverSet(flag, poly, minArea, minCirc, removeHoles) ==
    IF Area2(poly) >= 0
    THEN [keep |-> PassesThresholds(poly, minArea, minCirc), flag |-> FALSE]
    ELSE [keep |-> ~removeHoles \/ PassesThresholds(poly, minArea, minCirc),
          flag |-> flag]

\* One iteration of the loop: whether poly is pushed, and outline_is_removed after it.
RSACStep(flag, poly, minArea, minCirc, removeHoles) ==
    IF Area2(poly) >= 0
    THEN IF PassesThresholds(poly, minArea, minCirc)
         THEN [keep |-> TRUE, flag |-> FALSE]
         ELSE [keep |-> FALSE, flag |-> TRUE]
    ELSE IF flag
         THEN [keep |-> FALSE, flag |-> flag]
         ELSE [keep |-> ~removeHoles \/ PassesThresholds(poly, minArea, minCirc),
               flag |-> flag]

\* The loop from position i on: the positions pushed to new_polygon.
RECURSIVE RSACLoop(_, _, _, _, _, _, _)
RSACLoop(ps, i, flag, acc, minArea, minCirc, removeHoles) ==
    IF i > Len(ps) THEN acc
    ELSE LET s == RSACStep(flag, ps[i], minArea, minCirc, removeHoles)
         IN  RSACLoop(ps, i + 1, s.flag,
                      IF s.keep THEN Append(acc, i) ELSE acc,
                      minArea, minCirc, removeHoles)

removeSmallAreaCircumference(minArea, minCirc, removeHoles) ==
    LET k == RSACLoop(polys, 1, FALSE, <<>>, minArea, minCirc, removeHoles)
    IN  /\ op = "init"
        /\ kept' = k
        /\ polys' = [n \in 1..Len(k) |-> polys[k[n]]]
        /\ prev' = polys
        /\ arg' = [minArea |-> minArea, minCirc |-> minCirc, removeHoles |-> removeHoles]
        /\ ret' = <<>>
        /\ op' = "removeSmallAreaCircumference"
        /\ UNCHANGED <<tree, shape_type, calls>>

InitFilter ==
    /\ polys \in SeqUpTo(FilterShapes, MaxFilterSet)
    /\ prev = <<>>
    /\ arg = <<>>
    /\ ret = <<>>
    /\ kept = <<>>
    /\ tree = <<>>
    /\ shape_type = "Closed"
    /\ calls = 0
    /\ op = "init"

NextFilter ==
    \E a \in MinAreas, c \in MinCircumferences, h \in BOOLEAN :
        removeSmallAreaCircumference(a, c, h)

SpecFilter == InitFilter /\ [][NextFilter]_vars

IsOutline(poly) == Area2(poly) >= 0

\* C1: after removeSmallAreaCircumference the result is the input at the
\* positions kept, in input order, and no outline that fails the area or the
\* circumference threshold is among them, nor any hole between such an
\* outline and the next outline, whatever the hole's size and removeHoles.
C1_FailingOutlineAndItsHolesDropped ==
    op = "removeSmallAreaCircumference" =>
        /\ \A n \in 1..Len(kept) : kept[n] \in 1..Len(prev) /\ polys[n] = prev[kept[n]]
        /\ Len(polys) = Len(kept)
        /\ \A n \in 1..(Len(kept) - 1) : kept[n] < kept[n + 1]
        /\ \A i \in 1..Len(prev) :
              (IsOutline(prev[i]) /\ ~PassesThresholds(prev[i], arg.minArea, arg.minCirc)) =>
                  /\ i \notin Range(kept)
                  /\ \A j \in (i + 1)..Len(prev) :
                        (\A m \in (i + 1)..j : ~IsOutline(prev[m])) => j \notin Range(kept)

\* A tiny outline directly followed by a hole that passes both thresholds
\* itself, with removeHoles = false: both are gone.
C1_Witness ==
    /\ op = "removeSmallAreaCircumference"
    /\ ~arg.removeHoles
    /\ \E i \in 1..(Len(prev) - 1) :
          /\ Area2(prev[i]) > 0
          /\ Abs(Area2(prev[i])) < 2 * arg.minArea
          /\ ~IsOutline(prev[i + 1])
          /\ PassesThresholds(prev[i + 1], arg.minArea, arg.minCirc)
          /\ Abs(Area2(prev[i + 1])) > Abs(Area2(prev[i]))
          /\ i \notin Range(kept)
          /\ (i + 1) \notin Range(kept)

----------------------------------------------------------------------------
(* Nesting decomposition: splitIntoParts                                   *)

MaxNodes == 5

\* A nesting tree (ClipperLib::PolyTree) of n nodes: t[i] is the parent of
\* node i, 0 being the root, which carries no contour.  Childs are ordered by
\* node number.
Trees(n) == {t \in [1..n -> 0..(n - 1)] : \A i \in 1..n : t[i] < i}

RECURSIVE ChildsFrom(_, _, _)
ChildsFrom(t, node, i) ==
    IF i > Len(t) THEN <<>>
    ELSE IF t[i] = node THEN <<i>> \o ChildsFrom(t, node, i + 1)
         ELSE ChildsFrom(t, node, i + 1)

\* node->Childs
Childs(t, node) == ChildsFrom(t, node, 1)

\* Depth of a node: 0 for the childs of the root.
RECURSIVE Depth(_, _)
Depth(t, node) == IF t[node] = 0 THEN 0 ELSE 1 + Depth(t, t[node])

\* The contours a union returns for this tree are nested as the tree says:
\* a node's contour is a square that strictly encloses the squares of its
\* childs, which lie side by side; outer contours (even depth) are
\* counter-clockwise, holes (odd depth) clockwise.
RECURSIVE Span(_, _), SpanSum(_, _, _)
Span(t, node) == 1 + SpanSum(t, Childs(t, node), Len(Childs(t, node)))
SpanSum(t, cs, n) == IF n = 0 THEN 0 ELSE Span(t, cs[n]) + 1 + SpanSum(t, cs, n - 1)

\* Width taken by the siblings of node that come before it.
RECURSIVE Before(_, _, _)
Before(t, node, i) ==
    IF i >= node THEN 0
    ELSE (IF t[i] = t[node] THEN Span(t, i) + 1 ELSE 0) + Before(t, node, i + 1)

RECURSIVE Left(_, _)
Left(t, node) ==
    (IF t[node] = 0 THEN 0 ELSE Left(t, t[node]) + 1) + Before(t, node, 1)

\* child->Contour
Contour(t, node) ==
    LET d == Depth(t, node)
        sq == Rect(Left(t, node), d, Left(t, node) + Span(t, node), 2 * Len(t) + 1 - d)
    IN  IF d % 2 = 0 THEN sq ELSE Reverse(sq)

\* A variant of the inner loop that does not descend into the holes.
RECURSIVE SIP_HolesNoDescent(_, _, _, _, _)
SIP_HolesNoDescent(t, hs, i, part, acc) ==
    IF i > Len(hs) THEN [part |-> part, ret |-> acc]
    ELSE SIP_HolesNoDescent(t, hs, i + 1, Append(part, Contour(t, hs[i])), acc)

RECURSIVE splitIntoParts_processPolyTreeNode(_, _, _), SIP_Childs(_, _, _, _),
          SIP_Holes(_, _, _, _, _)

\* The inner loop over child->Childs from position i on: every hole is
\* appended to the part, and the walk recurses into it.
SIP_Holes(t, hs, i, part, acc) ==
    IF i > Len(hs) THEN [part |-> part, ret |-> acc]
    ELSE SIP_Holes(t, hs, i + 1, Append(part, Contour(t, hs[i])),
                   splitIntoParts_processPolyTreeNode(t, hs[i], acc))

\* A variant of the outer loop that pushes the part to ret before its holes
\* are appended to it.
RECURSIVE SIP_ChildsPushedEarly(_, _, _, _)
SIP_ChildsPushedEarly(t, cs, n, acc) ==
    IF n > Len(cs) THEN acc
    ELSE LET r == SIP_Holes(t, Childs(t, cs[n]), 1, <<Contour(t, cs[n])>>,
                            Append(acc, <<Contour(t, cs[n])>>))
         IN  SIP_ChildsPushedEarly(t, cs, n + 1, r.ret)

\* The outer loop over node->Childs from position n on: a new part per
\* child, pushed to ret after its holes were walked.
SIP_Childs(t, cs, n, acc) ==
    IF n > Len(cs) THEN acc
    ELSE LET r == SIP_Holes(t, Childs(t, cs[n]), 1, <<Contour(t, cs[n])>>, acc)
         IN  SIP_Childs(t, cs, n + 1, Append(r.ret, r.part))

splitIntoParts_processPolyTreeNode(t, node, acc) ==
    SIP_Childs(t, Childs(t, node), 1, acc)

splitIntoParts(unionAll) ==
    /\ op = "init"
    /\ ret' = splitIntoParts_processPolyTreeNode(tree, 0, <<>>)
    /\ arg' = [unionAll |-> unionAll]
    /\ op' = "splitIntoParts"
    /\ prev' = polys
    /\ UNCHANGED <<polys, kept, tree, shape_type, calls>>

InitParts ==
    /\ tree \in UNION {Trees(n) : n \in 0..MaxNodes}
    /\ polys = [i \in 1..Len(tree) |-> Contour(tree, i)]
    /\ prev = <<>>
    /\ arg = <<>>
    /\ ret = <<>>
    /\ kept = <<>>
    /\ shape_type = "Closed"
    /\ calls = 0
    /\ op = "init"

NextParts ==
    \E u \in BOOLEAN : splitIntoParts(u)

SpecParts == InitParts /\ [][NextParts]_vars

RECURSIVE Flatten(_)
Flatten(ss) == IF ss = <<>> THEN <<>> ELSE Head(ss) \o Flatten(Tail(ss))

\* How many times value v occurs in sequence s.
Count(s, v) == Cardinality({i \in 1..Len(s) : s[i] = v})

Nodes(t) == 1..Len(t)

\* C2: concatenating the contours of all parts splitIntoParts returns gives
\* the contours of the nodes of the nesting tree, each as often as the tree
\* holds it (once), and nothing else.
C2_PartsRoundTrip ==
    op = "splitIntoParts" =>
        LET flat == Flatten(ret)
        IN  /\ Len(flat) = Len(tree)
            /\ \A n \in Nodes(tree) :
                  Count(flat, Contour(tree, n)) =
                      Cardinality({m \in Nodes(tree) : Contour(tree, m) = Contour(tree, n)})
            /\ \A k \in 1..Len(flat) : \E n \in Nodes(tree) : flat[k] = Contour(tree, n)

\* A tree three levels deep (an island in a hole) was split.
C2_Witness ==
    /\ op = "splitIntoParts"
    /\ \E n \in Nodes(tree) : Depth(tree, n) = 2
    /\ Len(Flatten(ret)) = Len(tree)
    /\ Len(ret) >= 2

\* The part splitIntoParts is meant to build for outer node n.
PartOf(t, n) ==
    <<Contour(t, n)>> \o [i \in 1..Len(Childs(t, n)) |-> Contour(t, Childs(t, n)[i])]

OuterNodes(t) == {n \in Nodes(t) : Depth(t, n) % 2 = 0}

\* C3: splitIntoParts returns exactly one part per outer node (even depth),
\* made of the node's contour followed by the contours of its direct childs
\* in child order; the childs of a hole are in no part of the hole's but
\* start parts of their own.
C3_OnePartPerOuterNode ==
    op = "splitIntoParts" =>
        /\ Len(ret) = Cardinality(OuterNodes(tree))
        /\ \A n \in OuterNodes(tree) : Count(ret, PartOf(tree, n)) = 1
        /\ \A k \in 1..Len(ret) : \E n \in OuterNodes(tree) : ret[k] = PartOf(tree, n)
        /\ \A h \in Nodes(tree) \ OuterNodes(tree) : \A c \in Range(Childs(tree, h)) :
              /\ ~\E k \in 1..Len(ret) :
                    Contour(tree, h) \in Range(ret[k]) /\ Contour(tree, c) \in Range(ret[k])
              /\ \E k \in 1..Len(ret) : ret[k][1] = Contour(tree, c)

\* An outer square with one nested hole gave exactly one part of two contours.
C3_Witness ==
    /\ op = "splitIntoParts"
    /\ tree = <<0, 1>>
    /\ Len(ret) = 1
    /\ Len(ret[1]) = 2
    /\ ret[1][1] = Contour(tree, 1)
    /\ ret[1][2] = Contour(tree, 2)

\* A hole whose island started a part of its own.
C3_WitnessIsland ==
    /\ op = "splitIntoParts"
    /\ \E n \in Nodes(tree) : Depth(tree, n) = 2 /\ \E k \in 1..Len(ret) : ret[k][1] = Contour(tree, n)

----------------------------------------------------------------------------
(* Containment resolution: inside, findInside                              *)

MaxInsideSet == 3
MaxCoord == 8

\* The sentinel index; the code's value is the largest size_t.
NO_INDEX == -1

\* std::numeric_limits<int64_t>::max(), above every coordinate of the model.
INT64_MAX == 1000000

\* ClipperLib::PointInPolygon: 0 outside, 1 inside, -1 on the boundary.
RECURSIVE PIPLoop(_, _, _, _, _)
PIPLoop(pt, path, i, ip, result) ==
    IF i > Len(path) THEN result
    ELSE
      LET ipNext == IF i = Len(path) THEN path[1] ELSE path[i + 1]
          d == (X(ip) - X(pt)) * (Y(ipNext) - Y(pt)) - (X(ipNext) - X(pt)) * (Y(ip) - Y(pt))
          flip == IF (d > 0) = (Y(ipNext) > Y(ip)) THEN 1 - result ELSE result
      IN  IF /\ Y(ipNext) = Y(pt)
             /\ \/ X(ipNext) = X(pt)
                \/ (Y(ip) = Y(pt) /\ ((X(ipNext) > X(pt)) = (X(ip) < X(pt))))
          THEN -1
          ELSE IF (Y(ip) < Y(pt)) # (Y(ipNext) < Y(pt))
               THEN IF X(ip) >= X(pt)
                    THEN IF X(ipNext) > X(pt)
                         THEN PIPLoop(pt, path, i + 1, ipNext, 1 - result)
                         ELSE IF d = 0 THEN -1
                              ELSE PIPLoop(pt, path, i + 1, ipNext, flip)
                    ELSE IF X(ipNext) > X(pt)
                         THEN IF d = 0 THEN -1
                              ELSE PIPLoop(pt, path, i + 1, ipNext, flip)
                         ELSE PIPLoop(pt, path, i + 1, ipNext, result)
               ELSE PIPLoop(pt, path, i + 1, ipNext, result)

PointInPolygon(pt, path) ==
    IF Len(path) < 3 THEN 0 ELSE PIPLoop(pt, path, 1, path[1], 0)

\* LinearAlg2D::pointLiesOnTheRightOfLine: 1 when the ray from p to the right
\* crosses the edge p0-p1, 0 when p is on the edge, -1 otherwise.
pointLiesOnTheRightOfLine(p, p0, p1) ==
    LET pd_y == Y(p1) - Y(p0)
        max_x == IF X(p0) > X(p1) THEN X(p0) ELSE X(p1)
        min_x == IF X(p0) < X(p1) THEN X(p0) ELSE X(p1)
        dxFalling == (X(p1) - X(p0)) * (Y(p1) - Y(p)) - (X(p1) - X(p)) * pd_y
        dxRising == (X(p1) - X(p0)) * (Y(p) - Y(p0)) - (X(p) - X(p0)) * pd_y
    IN  IF max_x >= X(p)
        THEN IF pd_y < 0
             THEN IF Y(p1) <= Y(p) /\ Y(p0) > Y(p)
                  THEN IF dxFalling = 0 THEN 0 ELSE IF dxFalling > 0 THEN 1 ELSE -1
                  ELSE -1
             ELSE IF Y(p) >= Y(p0)
                  THEN IF Y(p) < Y(p1)
                       THEN IF dxRising = 0 THEN 0 ELSE IF dxRising > 0 THEN 1 ELSE -1
                       ELSE IF Y(p) = Y(p1)
                                 /\ (X(p) = X(p1) \/ (pd_y = 0 /\ min_x <= X(p)))
                            THEN 0 ELSE -1
                  ELSE -1
        ELSE -1

\* A variant of the loop that goes on to the next polygon after a border hit.
RECURSIVE InsideLoopBorderSkipped(_, _, _, _, _)
InsideLoopBorderSkipped(ps, i, p, border_result, poly_count_inside) ==
    IF i > Len(ps) THEN (poly_count_inside % 2) = 1
    ELSE LET is_inside_this_poly == PointInPolygon(p, ps[i])
         IN  IF is_inside_this_poly = -1
             THEN InsideLoopBorderSkipped(ps, i + 1, p, border_result, poly_count_inside)
             ELSE InsideLoopBorderSkipped(ps, i + 1, p, border_result,
                                          poly_count_inside + is_inside_this_poly)

\* Polygons::inside, the loop from polygon i on.
RECURSIVE InsideLoop(_, _, _, _, _)
InsideLoop(ps, i, p, border_result, poly_count_inside) ==
    IF i > Len(ps) THEN (poly_count_inside % 2) = 1
    ELSE LET is_inside_this_poly == PointInPolygon(p, ps[i])
         IN  IF is_inside_this_poly = -1
             THEN border_result
             ELSE InsideLoop(ps, i + 1, p, border_result,
                             poly_count_inside + is_inside_this_poly)

inside(p, border_result) ==
    /\ op = "init"
    /\ ret' = InsideLoop(polys, 1, p, border_result, 0)
    /\ arg' = [p |-> p, border_result |-> border_result]
    /\ op' = "inside"
    /\ prev' = polys
    /\ UNCHANGED <<polys, kept, tree, shape_type, calls>>

\* The scan of one polygon's edges from vertex i on (p0 is the vertex before):
\* the crossing count, the smallest crossing x, and whether the scan returned
\* at an on-edge hit.
RECURSIVE FI_Edges(_, _, _, _, _, _, _)
FI_Edges(poly, i, p0, p, border_result, crossings, min_x) ==
    IF i > Len(poly) THEN [hit |-> FALSE, crossings |-> crossings, min_x |-> min_x]
    ELSE
      LET p1 == poly[i]
          comp == pointLiesOnTheRightOfLine(p, p0, p1)
          x == IF Y(p1) = Y(p0) THEN X(p0)
               ELSE X(p0) + TruncDiv((X(p1) - X(p0)) * (Y(p) - Y(p0)), Y(p1) - Y(p0))
      IN  IF comp = 1
          THEN FI_Edges(poly, i + 1, p1, p, border_result, crossings + 1,
                        IF x < min_x THEN x ELSE min_x)
          ELSE IF border_result /\ comp = 0
               THEN [hit |-> TRUE, crossings |-> crossings, min_x |-> min_x]
               ELSE FI_Edges(poly, i + 1, p1, p, border_result, crossings, min_x)

\* The first loop from polygon i on: the index of an on-edge hit, or the
\* per-polygon crossing counts and smallest crossing x.  An empty polygon has
\* no back(): the loop over its vertices does nothing.
RECURSIVE FI_Polys(_, _, _, _, _)
FI_Polys(ps, i, p, border_result, acc) ==
    IF i > Len(ps) THEN [hit |-> NO_INDEX, per |-> acc]
    ELSE LET poly == ps[i]
             e == IF poly = <<>>
                  THEN [hit |-> FALSE, crossings |-> 0, min_x |-> INT64_MAX]
                  ELSE FI_Edges(poly, 1, poly[Len(poly)], p, border_result, 0, INT64_MAX)
         IN  IF e.hit THEN [hit |-> i - 1, per |-> acc]
             ELSE FI_Polys(ps, i + 1, p, border_result, Append(acc, e))

\* The second loop from array_idx i on: the odd-count polygon with the
\* smallest min_x, and the number of odd-count polygons.
RECURSIVE FI_Select(_, _, _, _, _)
FI_Select(per, i, min_x_uneven, r, n_unevens) ==
    IF i > Len(per) THEN [ret |-> r, n_unevens |-> n_unevens]
    ELSE IF per[i].crossings % 2 = 1
         THEN IF per[i].min_x < min_x_uneven
              THEN FI_Select(per, i + 1, per[i].min_x, i - 1, n_unevens + 1)
              ELSE FI_Select(per, i + 1, min_x_uneven, r, n_unevens + 1)
         ELSE FI_Select(per, i + 1, min_x_uneven, r, n_unevens)

\* Polygons::findInside; indices are 0-based as in the code, and
\* "return false" from a function returning size_t is index 0.
FindInsideResult(ps, p, border_result) ==
    IF Len(ps) < 1 THEN 0
    ELSE LET first == FI_Polys(ps, 1, p, border_result, <<>>)
             sel == FI_Select(first.per, 1, INT64_MAX, NO_INDEX, 0)
         IN  IF first.hit # NO_INDEX THEN first.hit
             ELSE IF sel.n_unevens % 2 = 0 THEN NO_INDEX ELSE sel.ret

findInside(p, border_result) ==
    /\ op = "init"
    /\ ret' = FindInsideResult(polys, p, border_result)
    /\ arg' = [p |-> p, border_result |-> border_result]
    /\ op' = "findInside"
    /\ prev' = polys
    /\ UNCHANGED <<polys, kept, tree, shape_type, calls>>

\* The contours of the containment checks: an outer square, a centred hole
\* half its size, a clockwise contour with a slanted right edge, and a small
\* square that lies inside all of them.
OuterSquare == Rect(0, 0, 8, 8)
CentredHole == Reverse(Rect(2, 2, 6, 6))
SlantedHole == <<(<<1, 1>>), (<<1, 7>>), (<<5, 7>>), (<<6, 1>>)>>
InnerSquare == Rect(3, 3, 5, 5)

InsideShapes == {OuterSquare, CentredHole, SlantedHole, InnerSquare}

QueryPoints == (0..MaxCoord) \X (0..MaxCoord)

InitInside ==
    /\ polys \in SeqUpTo(InsideShapes, MaxInsideSet)
    /\ prev = <<>>
    /\ arg = <<>>
    /\ ret = <<>>
    /\ kept = <<>>
    /\ tree = <<>>
    /\ shape_type = "Closed"
    /\ calls = 0
    /\ op = "init"

NextInside ==
    \E p \in QueryPoints, b \in BOOLEAN :
        \/ inside(p, b)
        \/ findInside(p, b)

SpecInside == InitInside /\ [][NextInside]_vars

\* C4: inside returns border_result when the single-path test reports the
\* point on an edge of any polygon of the set, wherever that polygon stands
\* in the set; otherwise it returns whether the number of polygons that
\* contain the point is odd.
C4_InsideEvenOdd ==
    op = "inside" =>
        ret = IF \E i \in 1..Len(polys) : PointInPolygon(arg.p, polys[i]) = -1
              THEN arg.border_result
              ELSE Cardinality({i \in 1..Len(polys) : PointInPolygon(arg.p, polys[i]) = 1}) % 2 = 1

\* The outer square with its centred hole: a point inside the hole is not inside.
C4_Witness ==
    /\ op = "inside"
    /\ polys = <<OuterSquare, CentredHole>>
    /\ arg.p = <<4, 4>>
    /\ ret = FALSE

\* ... and a point between the two contours is inside.
C4_WitnessBetween ==
    /\ op = "inside"
    /\ polys = <<OuterSquare, CentredHole>>
    /\ arg.p = <<1, 1>>
    /\ ret = TRUE

\* ... and a border hit on the second polygon wins over the first polygon's count.
C4_WitnessBorder ==
    /\ op = "inside"
    /\ polys = <<OuterSquare, CentredHole>>
    /\ arg.p = <<2, 3>>
    /\ arg.border_result
    /\ ret = TRUE

\* The edges of a polygon as the scans walk them: edge k runs from the vertex
\* before vertex k to vertex k.
EdgeComp(poly, k, p) == pointLiesOnTheRightOfLine(p, poly[PrevIdx(poly, k)], poly[k])

OnEdgeHit(ps, p) ==
    \E i \in 1..Len(ps) : \E k \in 1..Len(ps[i]) : EdgeComp(ps[i], k, p) = 0

CrossingEdges(poly, p) == {k \in 1..Len(poly) : EdgeComp(poly, k, p) = 1}

\* The polygons whose own crossing count is odd.
OddPolys(ps, p) == {i \in 1..Len(ps) : Cardinality(CrossingEdges(ps[i], p)) % 2 = 1}

\* The x recorded for a crossing edge.
CrossingX(poly, k, p) ==
    LET p0 == poly[PrevIdx(poly, k)]
        p1 == poly[k]
    IN  X(p0) + TruncDiv((X(p1) - X(p0)) * (Y(p) - Y(p0)), Y(p1) - Y(p0))

\* The smallest x recorded for a polygon with at least one crossing edge.
RecordedMinX(poly, p) ==
    CHOOSE x \in {CrossingX(poly, k, p) : k \in CrossingEdges(poly, p)} :
        \A k \in CrossingEdges(poly, p) : x <= CrossingX(poly, k, p)

\* Every vertex of a lies strictly inside b.
StrictlyWithin(a, b) == \A k \in 1..Len(a) : PointInPolygon(a[k], b) = 1

\* An odd number of contours, each around p, each two of them nested.
WellNestedOddStack(ps, p) ==
    /\ Len(ps) % 2 = 1
    /\ \A i \in 1..Len(ps) : PointInPolygon(p, ps[i]) = 1
    /\ \A i, j \in 1..Len(ps) :
          i # j => (StrictlyWithin(ps[i], ps[j]) \/ StrictlyWithin(ps[j], ps[i]))

IsInnermost(ps, i) == \A j \in 1..Len(ps) : j # i => StrictlyWithin(ps[i], ps[j])

\* C5, first half: with no on-edge hit and an even number of odd-count
\* polygons findInside returns the sentinel.
C5_EvenGivesSentinel ==
    (op = "findInside" /\ ~OnEdgeHit(polys, arg.p)
        /\ Cardinality(OddPolys(polys, arg.p)) % 2 = 0) => ret = NO_INDEX

\* C5, second half: with no on-edge hit and an odd number of odd-count
\* polygons findInside returns the index of an odd-count polygon whose
\* recorded minimum crossing x is the smallest.
C5_OddGivesSmallestMinX ==
    (op = "findInside" /\ ~OnEdgeHit(polys, arg.p)
        /\ Cardinality(OddPolys(polys, arg.p)) % 2 = 1) =>
            /\ (ret + 1) \in OddPolys(polys, arg.p)
            /\ \A j \in OddPolys(polys, arg.p) :
                  RecordedMinX(polys[ret + 1], arg.p) <= RecordedMinX(polys[j], arg.p)

\* C5, last part: for a well-nested stack of an odd number of contours
\* around the point that index is the innermost contour's.
C5_StackGivesInnermost ==
    (op = "findInside" /\ ~OnEdgeHit(polys, arg.p) /\ WellNestedOddStack(polys, arg.p)) =>
        (ret # NO_INDEX /\ IsInnermost(polys, ret + 1))

\* C5: findInside with no on-edge hit returns the sentinel for an even number
\* of odd-count polygons, and otherwise the index of the odd-count polygon
\* with the smallest recorded minimum crossing x, the innermost contour of a
\* well-nested odd stack.
C5_FindInsideClaim ==
    C5_EvenGivesSentinel /\ C5_OddGivesSmallestMinX /\ C5_StackGivesInnermost

\* C5 on the sets the two loops of findInside run over (size() >= 1): the
\* sentinel for an even number of odd-count polygons, otherwise the index of
\* the odd-count polygon with the smallest recorded minimum crossing x, which
\* is the innermost contour of a well-nested odd stack.
C5_FindInsideNonEmpty == Len(polys) >= 1 => C5_FindInsideClaim

----------------------------------------------------------------------------
(* Degenerate-vertex removal: removeDegenerateVertsForEveryone             *)

MaxDegenVerts == 5
MaxDegenPolys == 3

\* The vertices of the lines: four points of the x axis and one off it.
DegenPoints == {<<0, 0>>, <<1, 0>>, <<2, 0>>, <<3, 0>>, <<0, 1>>}

\* The lines of the sets of several lines: a spike that collapses, a segment,
\* a triangle, and a quadrilateral with a spike.
DegenSpike == <<(<<0, 0>>), (<<2, 0>>), (<<1, 0>>)>>
DegenSegment == <<(<<0, 0>>), (<<1, 0>>)>>
DegenTriangle == <<(<<0, 0>>), (<<2, 0>>), (<<0, 1>>)>>
DegenSpikedQuad == <<(<<0, 0>>), (<<3, 0>>), (<<1, 0>>), (<<0, 1>>)>>

DegenCatalogue == {DegenSpike, DegenSegment, DegenTriangle, DegenSpikedQuad}

\* The sets the operation is run on: every single line of up to
\* MaxDegenVerts vertices, and every sequence of up to MaxDegenPolys lines
\* of the catalogue.
DegenSets ==
    {<<l>> : l \in SeqUpTo(DegenPoints, MaxDegenVerts)}
        \cup SeqUpTo(DegenCatalogue, MaxDegenPolys)

\* Element i of a vector, counted from 0 as in the code.
At(v, i) == v[i + 1]

\* The lambda isDegenerate: dot(last_line, next_line) equals minus the
\* product of the two lengths, that is, the edges last->now and now->next
\* run in exactly opposite directions or one of them has length 0.  The
\* equation is taken between the squares, the lengths being Euclidean.
isDegenerate(last, now, next) ==
    LET last_line == Minus(now, last)
        next_line == Minus(next, now)
        d == dot(last_line, next_line)
    IN  d <= 0 /\ d * d = vSize2(last_line) * vSize2(next_line)

\* while (result.size() > 1 && isDegenerate(result[size - 2], result.back(), next)) pop_back
RECURSIVE PopWhileDegenerate(_, _)
PopWhileDegenerate(result, next) ==
    IF Len(result) > 1 /\ isDegenerate(result[Len(result) - 1], result[Len(result)], next)
    THEN PopWhileDegenerate(SubSeq(result, 1, Len(result) - 1), next)
    ELSE result

\* The loop over idx = start_vertex .. end_vertex - 1 of one line.
RECURSIVE DegenVerts(_, _, _, _, _)
DegenVerts(poly, idx, end_vertex, result, isChanged) ==
    IF idx >= end_vertex THEN [result |-> result, isChanged |-> isChanged]
    ELSE IF idx + 1 >= Len(poly) /\ Len(result) = 0
         THEN [result |-> result, isChanged |-> isChanged]
         ELSE
           LET last == IF Len(result) = 0 THEN poly[Len(poly)] ELSE result[Len(result)]
               next == IF idx + 1 >= Len(poly) THEN At(result, 0) ELSE At(poly, idx + 1)
           IN  IF isDegenerate(last, At(poly, idx), next)
               THEN DegenVerts(poly, idx + 1, end_vertex, PopWhileDegenerate(result, next), TRUE)
               ELSE DegenVerts(poly, idx + 1, end_vertex, Append(result, At(poly, idx)), isChanged)

\* The body of the outer loop for one line: the vertices that stay and
\* whether any was dropped.  A polyline keeps its first and its last vertex.
\* An empty polyline has neither: poly[0] is read all the same, end_vertex
\* is poly.size() - 1 wrapped around, and the loop reads on behind the
\* vector, which is flagged as outOfRange.
DegenLine(poly, for_polyline) ==
    IF for_polyline
    THEN IF Len(poly) = 0 THEN [result |-> poly, isChanged |-> FALSE, outOfRange |-> TRUE]
         ELSE LET r == DegenVerts(poly, 1, Len(poly) - 1, <<At(poly, 0)>>, FALSE)
              IN  [result |-> r.result \o <<poly[Len(poly)]>>, isChanged |-> r.isChanged,
                   outOfRange |-> FALSE]
    ELSE LET r == DegenVerts(poly, 0, Len(poly), <<>>, FALSE)
         IN  [result |-> r.result, isChanged |-> r.isChanged, outOfRange |-> FALSE]

\* Polygons::remove(size_t index): the last polygon moves into the slot.
RemoveAt(ps, index) ==
    IF Len(ps) = 1 THEN <<>>
    ELSE IF Len(ps) > 1
         THEN IF index < Len(ps) - 1
              THEN [k \in 1..(Len(ps) - 1) |-> IF k = index + 1 THEN ps[Len(ps)] ELSE ps[k]]
              ELSE SubSeq(ps, 1, Len(ps) - 1)
         ELSE ps

\* A variant of the outer loop that steps to the next slot after a removal.
RECURSIVE DegenWalkNoStepBack(_, _, _)
DegenWalkNoStepBack(st, poly_idx, for_polyline) ==
    IF poly_idx >= Len(st.ps) THEN st
    ELSE LET r == DegenLine(At(st.ps, poly_idx), for_polyline)
             seen == Append(st.visited, At(st.ids, poly_idx))
         IN  IF r.outOfRange
             THEN [st EXCEPT !.visited = seen, !.outOfRange = TRUE]
             ELSE IF r.isChanged
                  THEN IF for_polyline \/ Len(r.result) > 2
                       THEN DegenWalkNoStepBack(
                                [st EXCEPT !.ps[poly_idx + 1] = r.result, !.visited = seen],
                                poly_idx + 1, for_polyline)
                       ELSE DegenWalkNoStepBack(
                                [st EXCEPT !.ps = RemoveAt(st.ps, poly_idx),
                                           !.ids = RemoveAt(st.ids, poly_idx),
                                           !.visited = seen],
                                poly_idx + 1, for_polyline)
                  ELSE DegenWalkNoStepBack([st EXCEPT !.visited = seen], poly_idx + 1,
                                           for_polyline)

\* The outer loop from poly_idx on.  st.ps is the set, st.ids the input
\* position of each of its lines, st.visited the input positions of the
\* lines the loop body has run on.
RECURSIVE DegenWalk(_, _, _)
DegenWalk(st, poly_idx, for_polyline) ==
    IF poly_idx >= Len(st.ps) THEN st
    ELSE LET r == DegenLine(At(st.ps, poly_idx), for_polyline)
             seen == Append(st.visited, At(st.ids, poly_idx))
         IN  IF r.outOfRange
             THEN [st EXCEPT !.visited = seen, !.outOfRange = TRUE]
             ELSE IF r.isChanged
                  THEN IF for_polyline \/ Len(r.result) > 2
                       THEN DegenWalk([st EXCEPT !.ps[poly_idx + 1] = r.result,
                                                 !.visited = seen],
                                      poly_idx + 1, for_polyline)
                       ELSE DegenWalk([st EXCEPT !.ps = RemoveAt(st.ps, poly_idx),
                                                 !.ids = RemoveAt(st.ids, poly_idx),
                                                 !.visited = seen],
                                      poly_idx, for_polyline)
                  ELSE DegenWalk([st EXCEPT !.visited = seen], poly_idx + 1, for_polyline)

DegenStart(ps) ==
    [ps |-> ps, ids |-> [k \in 1..Len(ps) |-> k], visited |-> <<>>, outOfRange |-> FALSE]

\* The set removeDegenerateVertsForEveryone leaves.
DegenSet(ps, poly_idx, for_polyline) == DegenWalk(DegenStart(ps), poly_idx, for_polyline).ps

\* The largest size_t, above every size and index of the model.
SIZE_MAX == 1000000

\* a - b in size_t.
SizeSub(a, b) == IF a >= b THEN a - b ELSE SIZE_MAX - (b - a) + 1

\* const size_t end_vertex = for_polyline ? poly.size() - 1 : poly.size();
EndVertex(poly, for_polyline) == IF for_polyline THEN SizeSub(Len(poly), 1) ELSE Len(poly)

\* The indices at which the pass reads the polyline poly: poly[i] before
\* start_vertex, poly[idx] and poly[idx + 1] in the loop, poly[i] from
\* end_vertex on.  On an empty polyline the first of these reads, poly[0],
\* is already behind the vector and is the last one recorded.
PolylineReads(poly) ==
    LET end_vertex == EndVertex(poly, TRUE)
    IN  IF Len(poly) = 0 THEN {0}
        ELSE {0} \cup UNION {{idx, idx + 1} : idx \in 1..(end_vertex - 1)}
                 \cup {i \in end_vertex..(Len(poly) - 1) : TRUE}

\* What the loop body does with the polyline poly: its size, the last
\* considered index and the indices read.
PolylineAccess(poly) ==
    [size |-> Len(poly), end_vertex |-> EndVertex(poly, TRUE), read |-> PolylineReads(poly)]

\* kept holds the input position of each line that is left, ret the input
\* positions the loop body ran on, in order, and arg, for polylines, the
\* accesses of the loop body to each of these.
removeDegenerateVerts ==
    /\ op = "init"
    /\ LET st == DegenWalk(DegenStart(polys), 0, shape_type = "Open")
       IN  /\ polys' = st.ps
           /\ kept' = st.ids
           /\ ret' = st.visited
           /\ arg' = IF shape_type = "Open"
                     THEN [k \in 1..Len(st.visited) |-> PolylineAccess(polys[st.visited[k]])]
                     ELSE <<>>
           /\ op' = IF st.outOfRange THEN "removeDegenerateVerts: out of range"
                    ELSE "removeDegenerateVerts"
    /\ prev' = polys
    /\ UNCHANGED <<tree, shape_type, calls>>

InitDegen ==
    /\ shape_type \in {"Closed", "Open"}
    /\ calls = 0
    /\ polys \in DegenSets
    /\ prev = <<>>
    /\ arg = <<>>
    /\ ret = <<>>
    /\ kept = <<>>
    /\ tree = <<>>
    /\ op = "init"

NextDegen == removeDegenerateVerts

SpecDegen == InitDegen /\ [][NextDegen]_vars

C6_IdempotentOnPolylines ==
    (op = "removeDegenerateVerts" /\ shape_type = "Open") => DegenSet(polys, 0, TRUE) = polys

----------------------------------------------------------------------------
(* Polygons::remove(to_be_removed, same_distance)                          *)

MaxRemVerts == 3
MaxRemSet == 2

RemPoints == {<<0, 0>>, <<1, 0>>, <<2, 0>>}

Tolerances == {0, 1}

\* The polygons of the sets of several polygons: a triangle of three points
\* of a line, the same from its second vertex on, a two-point contour and
\* the empty polygon.
RemTriple == <<(<<0, 0>>), (<<1, 0>>), (<<2, 0>>)>>
RemTripleRotated == <<(<<1, 0>>), (<<2, 0>>), (<<0, 0>>)>>
RemPair == <<(<<0, 0>>), (<<2, 0>>)>>

RemCatalogue == {RemTriple, RemTripleRotated, RemPair, <<>>}

\* The sets on either side of the operation: every single polygon of up to
\* MaxRemVerts vertices, and every sequence of up to MaxRemSet polygons of
\* the catalogue.
RemSets ==
    {<<l>> : l \in SeqUpTo(RemPoints, MaxRemVerts)} \cup SeqUpTo(RemCatalogue, MaxRemSet)

\* The loop that finds the vertex of poly_rem closest to poly_keep[0]: the
\* first one at the smallest squared distance.
RECURSIVE ClosestPoint(_, _, _, _, _)
ClosestPoint(poly_rem, keep0, point_rem_idx, closest_point_idx, smallestDist2) ==
    IF point_rem_idx >= Len(poly_rem)
    THEN [closest_point_idx |-> closest_point_idx, smallestDist2 |-> smallestDist2]
    ELSE LET dist2 == vSize2(Minus(At(poly_rem, point_rem_idx), keep0))
         IN  IF dist2 < smallestDist2 \/ smallestDist2 < 0
             THEN ClosestPoint(poly_rem, keep0, point_rem_idx + 1, point_rem_idx, dist2)
             ELSE ClosestPoint(poly_rem, keep0, point_rem_idx + 1, closest_point_idx,
                               smallestDist2)

ComparePointsExclusive(poly_rem, poly_keep, closest_point_idx, same_distance) ==
    \A point_idx \in 0..(Len(poly_rem) - 1) :
        vSize2(Minus(At(poly_rem, (closest_point_idx + point_idx) % Len(poly_rem)),
                     At(poly_keep, point_idx))) < same_distance * same_distance

\* The loop that compares the two polygons on all points, poly_rem taken from
\* closest_point_idx on: poly_rem_is_poly_keep at its end.
ComparePoints(poly_rem, poly_keep, closest_point_idx, same_distance) ==
    \A point_idx \in 0..(Len(poly_rem) - 1) :
        vSize2(Minus(At(poly_rem, (closest_point_idx + point_idx) % Len(poly_rem)),
                     At(poly_keep, point_idx))) <= same_distance * same_distance

\* The body of the loop over to_be_removed for one poly_rem: TRUE when it
\* sets should_be_removed.
RemIsKeep(poly_rem, poly_keep, same_distance) ==
    IF Len(poly_rem) # Len(poly_keep) \/ Len(poly_rem) = 0 THEN FALSE
    ELSE LET c == ClosestPoint(poly_rem, At(poly_keep, 0), 0, 0, -1)
         IN  IF c.smallestDist2 > same_distance * same_distance THEN FALSE
             ELSE ComparePoints(poly_rem, poly_keep, c.closest_point_idx, same_distance)

\* should_be_removed for one poly_keep.
ShouldBeRemoved(poly_keep, to_be_removed, same_distance) ==
    /\ Len(poly_keep) > 0
    /\ \E j \in 1..Len(to_be_removed) : RemIsKeep(to_be_removed[j], poly_keep, same_distance)

\* The positions of the polygons pushed to result, from position i on.
RECURSIVE RemKept(_, _, _, _)
RemKept(ps, i, to_be_removed, same_distance) ==
    IF i > Len(ps) THEN <<>>
    ELSE IF ShouldBeRemoved(ps[i], to_be_removed, same_distance)
         THEN RemKept(ps, i + 1, to_be_removed, same_distance)
         ELSE <<i>> \o RemKept(ps, i + 1, to_be_removed, same_distance)

remove(to_be_removed, same_distance) ==
    /\ op = "init"
    /\ kept' = RemKept(polys, 1, to_be_removed, same_distance)
    /\ ret' = [k \in 1..Len(kept') |-> polys[kept'[k]]]
    /\ arg' = [to_be_removed |-> to_be_removed, same_distance |-> same_distance]
    /\ prev' = polys
    /\ op' = "remove"
    /\ UNCHANGED <<polys, tree, shape_type, calls>>

InitRemove ==
    /\ polys \in RemSets
    /\ prev = <<>>
    /\ arg = <<>>
    /\ ret = <<>>
    /\ kept = <<>>
    /\ tree = <<>>
    /\ shape_type = "Closed"
    /\ calls = 0
    /\ op = "init"

NextRemove ==
    \E to_be_removed \in RemSets, same_distance \in Tolerances :
        remove(to_be_removed, same_distance)

SpecRemove == InitRemove /\ [][NextRemove]_vars

\* b is a with its vertices taken from vertex rot on, every pair within tol.
WithinAtRotation(a, b, rot, tol) ==
    /\ Len(a) = Len(b)
    /\ \A k \in 0..(Len(a) - 1) :
          vSize2(Minus(At(b, (rot + k) % Len(b)), At(a, k))) <= tol * tol

MatchesAtSomeRotation(a, b, tol) ==
    \E rot \in 0..(Len(b) - 1) : WithinAtRotation(a, b, rot, tol)

InResult(poly) == \E k \in 1..Len(ret) : ret[k] = poly

\* The polygons that stay keep their relative order: the result is the
\* receiver's polygons at strictly increasing positions.
RemOrderKept ==
    /\ \A k \in 1..Len(kept) : kept[k] \in 1..Len(polys) /\ ret[k] = polys[kept[k]]
    /\ \A k \in 1..(Len(kept) - 1) : kept[k] < kept[k + 1]
    /\ Len(ret) = Len(kept)

RemNoMatchStays ==
    \A i \in 1..Len(polys) :
        (\A j \in 1..Len(arg.to_be_removed) :
            ~MatchesAtSomeRotation(polys[i], arg.to_be_removed[j], arg.same_distance))
        => i \in Range(kept)

\* C7 as stated: a kept polygon of which to_be_removed holds an exact
\* duplicate is absent from the result; a kept polygon that no polygon of
\* to_be_removed matches at any rotation within tol is present; the polygons
\* that stay keep their relative order.
C7_RemoveAsStated ==
    op = "remove" =>
        /\ \A i \in 1..Len(polys) :
              (\E j \in 1..Len(arg.to_be_removed) : arg.to_be_removed[j] = polys[i])
              => ~InResult(polys[i])
        /\ RemNoMatchStays
        /\ RemOrderKept

\* C7, amended: a kept polygon with at least one vertex of which
\* to_be_removed holds an exact duplicate is absent from the result; a kept
\* polygon that no polygon of to_be_removed matches at any rotation within
\* tol is present (an empty polygon always is); the polygons that stay keep
\* their relative order.
C7_RemoveNonEmptyDuplicate ==
    op = "remove" =>
        /\ \A i \in 1..Len(polys) :
              (Len(polys[i]) > 0
                  /\ \E j \in 1..Len(arg.to_be_removed) : arg.to_be_removed[j] = polys[i])
              => ~InResult(polys[i])
        /\ RemNoMatchStays
        /\ RemOrderKept

\* remove took a polygon out of which to_be_removed holds an exact duplicate
\* and left another in.
C7_Witness ==
    /\ op = "remove"
    /\ \E i \in 1..Len(polys) :
          /\ Len(polys[i]) > 0
          /\ \E j \in 1..Len(arg.to_be_removed) : arg.to_be_removed[j] = polys[i]
          /\ ~InResult(polys[i])
    /\ Len(ret) >= 1

\* remove kept a triangle that differs from one of to_be_removed in one vertex.
C7_WitnessPerturbed ==
    /\ op = "remove"
    /\ arg.same_distance = 1
    /\ \E i \in 1..Len(polys), j \in 1..Len(arg.to_be_removed) :
          /\ Len(polys[i]) = 3 /\ Len(arg.to_be_removed[j]) = 3
          /\ Cardinality({k \in 1..3 : polys[i][k] # arg.to_be_removed[j][k]}) = 1
          /\ i \in Range(kept)

\* remove kept an empty polygon that to_be_removed holds as well.
C7_WitnessEmptyStays ==
    /\ op = "remove"
    /\ \E i \in 1..Len(polys) : polys[i] = <<>> /\ i \in Range(kept)
    /\ \E j \in 1..Len(arg.to_be_removed) : arg.to_be_removed[j] = <<>>

\* C8: a kept polygon is excluded from the result whenever to_be_removed
\* holds a polygon of the same vertex count that equals it under some cyclic
\* rotation of the starting vertex with every corresponding pair of vertices
\* within tol, repeated vertex coordinates included.
C8_CyclicEqualityExcludes ==
    op = "remove" =>
        \A i \in 1..Len(polys) :
            (\E j \in 1..Len(arg.to_be_removed) :
                MatchesAtSomeRotation(polys[i], arg.to_be_removed[j], arg.same_distance))
            => ~InResult(polys[i])

\* The same for tolerance 0 and polygons without a repeated vertex.
C8_ExactDistinctVertices ==
    (op = "remove" /\ arg.same_distance = 0) =>
        \A i \in 1..Len(polys) :
            (/\ Cardinality(Range(polys[i])) = Len(polys[i])
             /\ \E j \in 1..Len(arg.to_be_removed) :
                   MatchesAtSomeRotation(polys[i], arg.to_be_removed[j], 0))
            => ~InResult(polys[i])

----------------------------------------------------------------------------
(* Polygons::makeConvex and the move assignment that ends it               *)

MaxHullVerts == 4
MaxHullSet == 2
MaxCalls == 3

HullPoints == (0..3) \X (0..2)

\* The polygons of the sets of several polygons: a triangle, a square around
\* it, a single point and the empty polygon.
HullTriangle == <<(<<1, 0>>), (<<2, 1>>), (<<1, 1>>)>>
HullSquare == Rect(0, 0, 3, 2)
HullDot == <<(<<2, 2>>)>>

HullCatalogue == {HullTriangle, HullSquare, HullDot, <<>>}

HullSets ==
    {<<l>> : l \in SeqUpTo(HullPoints, MaxHullVerts)} \cup SeqUpTo(HullCatalogue, MaxHullSet)

\* LinearAlg2D::pointIsLeftOfLine: positive when p is left of the line from
\* a to b, 0 when on it, negative when right of it.
pointIsLeftOfLine(p, a, b) ==
    (X(b) - X(a)) * (Y(p) - Y(a)) - (Y(b) - Y(a)) * (X(p) - X(a))

\* The vertices of all polygons, in order.
RECURSIVE PoolPoints(_, _)
PoolPoints(ps, i) == IF i > Len(ps) THEN <<>> ELSE ps[i] \o PoolPoints(ps, i + 1)

\* The comparison of the sort: by x, then by y.
PointLess(a, b) == IF X(a) = X(b) THEN Y(a) < Y(b) ELSE X(a) < X(b)

InsertSorted(p, s) ==
    LET k == Cardinality({i \in 1..Len(s) : ~PointLess(p, s[i])})
    IN  SubSeq(s, 1, k) \o <<p>> \o SubSeq(s, k + 1, Len(s))

RECURSIVE SortPoints(_)
SortPoints(s) == IF s = <<>> THEN <<>> ELSE InsertSorted(Head(s), SortPoints(Tail(s)))

\* The while loop that tracks backwards.
RECURSIVE HullPop(_, _)
HullPop(convexified, current) ==
    LET n == Len(convexified)
    IN  IF /\ n >= 2
           /\ \/ pointIsLeftOfLine(convexified[n], convexified[n - 1], current) >= 0
              \/ pointIsLeftOfLine(convexified[n], convexified[n - 1], convexified[1]) > 0
        THEN HullPop(SubSeq(convexified, 1, n - 1), current)
        ELSE convexified

\* The loop over the windows (poly[i], poly[i + 1]), 1-based.
RECURSIVE HullWindows(_, _, _)
HullWindows(poly, i, convexified) ==
    IF i + 1 > Len(poly) THEN convexified
    ELSE LET current == poly[i]
             after == poly[i + 1]
         IN  IF pointIsLeftOfLine(current, convexified[Len(convexified)], after) < 0
             THEN HullWindows(poly, i + 1, Append(HullPop(convexified, current), current))
             ELSE HullWindows(poly, i + 1, convexified)

\* The lambda make_sorted_poly_convex.  poly[0] of an empty vector is a read
\* out of range: whatever it yields is passed as outOfRange.
make_sorted_poly_convex(poly, convexified, outOfRange) ==
    HullWindows(poly, 1, Append(convexified, IF poly = <<>> THEN outOfRange ELSE poly[1]))

\* convexified when makeConvex reaches its last statement.
Convexified(ps, outOfRange) ==
    LET points == SortPoints(PoolPoints(ps, 1))
        forward == make_sorted_poly_convex(points, <<>>, outOfRange[1])
    IN  make_sorted_poly_convex(Reverse(points), forward, outOfRange[2])

\* What the two reads of poly[0] may yield: nothing is read out of range
\* unless the set has no vertex at all.
OutOfRangeReads(ps) ==
    IF PoolPoints(ps, 1) = <<>> THEN HullPoints \X HullPoints ELSE {<<(<<0, 0>>), (<<0, 0>>)>>}

\* makeConvex up to its last statement, *this = { convexified }, which
\* builds a temporary set and enters Polygons::operator=(Polygons&&).
makeConvex ==
    /\ op = "init"
    /\ prev' = polys
    /\ arg' = <<>>
    /\ IF polys = <<>>
       THEN /\ op' = "makeConvex"
            /\ ret' = <<>>
            /\ calls' = 0
       ELSE /\ \E outOfRange \in OutOfRangeReads(polys) : ret' = <<Convexified(polys, outOfRange)>>
            /\ op' = "operator="
            /\ calls' = 1
    /\ UNCHANGED <<polys, kept, tree, shape_type>>

\* Polygons::operator=(Polygons&&): this differs from &polygons, and the
\* body assigns *this = std::move(polygons), which is this operator again.
moveAssign ==
    /\ op = "operator="
    /\ calls < MaxCalls
    /\ calls' = calls + 1
    /\ UNCHANGED <<polys, prev, arg, ret, kept, tree, shape_type, op>>

\* The recursion has no end of its own: the stack runs out.
moveAssignStackExhausted ==
    /\ op = "operator="
    /\ calls = MaxCalls
    /\ op' = "aborted"
    /\ UNCHANGED <<polys, prev, arg, ret, kept, tree, shape_type, calls>>

\* A recursion without end and without side effect is undefined behaviour: a
\* build may also drop it, and the operator returns *this as it was.
moveAssignDropped ==
    /\ op = "operator="
    /\ op' = "makeConvex"
    /\ calls' = 0
    /\ UNCHANGED <<polys, prev, arg, ret, kept, tree, shape_type>>

InitConvex ==
    /\ polys \in HullSets
    /\ prev = <<>>
    /\ arg = <<>>
    /\ ret = <<>>
    /\ kept = <<>>
    /\ tree = <<>>
    /\ shape_type = "Closed"
    /\ calls = 0
    /\ op = "init"

NextConvex ==
    \/ makeConvex
    \/ moveAssign
    \/ moveAssignStackExhausted
    \/ moveAssignDropped

SpecConvex == InitConvex /\ [][NextConvex]_vars

\* p lies on the segment from a to b.
OnSegment(p, a, b) ==
    /\ pointIsLeftOfLine(p, a, b) = 0
    /\ (X(p) - X(a)) * (X(p) - X(b)) <= 0
    /\ (Y(p) - Y(a)) * (Y(p) - Y(b)) <= 0

\* p is neither inside the polygon nor on its outline.
StrictlyOutside(p, poly) ==
    /\ \A k \in 1..Len(poly) : ~OnSegment(p, poly[PrevIdx(poly, k)], poly[k])
    /\ (Len(poly) < 3 \/ PointInPolygon(p, poly) = 0)

NoInputVertexOutside(input, hull) ==
    \A i \in 1..Len(input) : \A k \in 1..Len(input[i]) : ~StrictlyOutside(input[i][k], hull)

\* No three cyclically consecutive vertices turn clockwise.
IsConvex(poly) ==
    \A k \in 1..Len(poly) :
        pointIsLeftOfLine(poly[((k + 1) % Len(poly)) + 1], poly[k],
                          poly[(k % Len(poly)) + 1]) >= 0

VerticesFromInput(input, hull) ==
    \A k \in 1..Len(hull) : \E i \in 1..Len(input) : hull[k] \in Range(input[i])

\* makeConvex is over: it returned or the process was aborted.
ConvexOver == op \in {"makeConvex", "aborted"}

\* C9: for every non-empty set no vertex of an input polygon lies strictly
\* outside the single polygon makeConvex replaces the set with.
C9_NoInputVertexOutsideHull ==
    (op \in {"operator=", "makeConvex", "aborted"} /\ prev # <<>>) =>
        (Len(ret) = 1 /\ NoInputVertexOutside(prev, ret[1]))

\* C9 read on the set itself once makeConvex is over.
C9_SetHoldsEveryInputVertex ==
    (ConvexOver /\ prev # <<>>) =>
        (Len(polys) = 1 /\ NoInputVertexOutside(prev, polys[1]))

\* C10: once makeConvex is over a non-empty set has been replaced by exactly
\* one polygon, every vertex of which is a vertex of the input and which is
\* convex; an empty set is left empty.
C10_ReplacedByOneConvexPolygon ==
    ConvexOver =>
        IF prev = <<>> THEN polys = <<>>
        ELSE /\ Len(polys) = 1
             /\ VerticesFromInput(prev, polys[1])
             /\ IsConvex(polys[1])
             /\ polys = ret

\* C10 read on the polygon makeConvex hands to the assignment, for sets with
\* at least one vertex: it is one polygon, its vertices are vertices of the
\* input and no three cyclically consecutive vertices turn clockwise; and an
\* empty set is left empty.
C10_ConvexifiedIsConvex ==
    /\ (op = "makeConvex" /\ prev = <<>>) => polys = <<>>
    /\ (op \in {"operator=", "makeConvex", "aborted"} /\ PoolPoints(prev, 1) # <<>>) =>
          /\ Len(ret) = 1
          /\ VerticesFromInput(prev, ret[1])
          /\ IsConvex(ret[1])

----------------------------------------------------------------------------
(* Nesting layers: sortByNesting                                           *)

\* ret.resize(nesting_idx + 1) when nesting_idx >= ret.size().
ResizeTo(layers, n) ==
    IF n > Len(layers) THEN layers \o [k \in 1..(n - Len(layers)) |-> <<>>] ELSE layers

\* A variant of the loop that walks the childs at the level of their parent.
RECURSIVE SBN_ChildsSameLevel(_, _, _, _, _)
SBN_ChildsSameLevel(t, cs, n, nesting_idx, acc) ==
    IF n > Len(cs) THEN acc
    ELSE LET sized == ResizeTo(acc, nesting_idx + 1)
             put == [sized EXCEPT ![nesting_idx + 1] = Append(@, Contour(t, cs[n]))]
         IN  SBN_ChildsSameLevel(t, cs, n + 1, nesting_idx,
                 SBN_ChildsSameLevel(t, Childs(t, cs[n]), 1, nesting_idx, put))

\* The loop over node->Childs from position n on: the child's contour goes
\* to layer nesting_idx, its subtree to the layers below.
RECURSIVE SBN_Childs(_, _, _, _, _)
SBN_Childs(t, cs, n, nesting_idx, acc) ==
    IF n > Len(cs) THEN acc
    ELSE LET sized == ResizeTo(acc, nesting_idx + 1)
             put == [sized EXCEPT ![nesting_idx + 1] = Append(@, Contour(t, cs[n]))]
         IN  SBN_Childs(t, cs, n + 1, nesting_idx,
                 SBN_Childs(t, Childs(t, cs[n]), 1, nesting_idx + 1, put))

sortByNesting_processPolyTreeNode(t, node, nesting_idx, acc) ==
    SBN_Childs(t, Childs(t, node), 1, nesting_idx, acc)

sortByNesting ==
    /\ op = "init"
    /\ ret' = sortByNesting_processPolyTreeNode(tree, 0, 0, <<>>)
    /\ arg' = <<>>
    /\ op' = "sortByNesting"
    /\ prev' = polys
    /\ UNCHANGED <<polys, kept, tree, shape_type, calls>>

NextNesting == sortByNesting

SpecNesting == InitParts /\ [][NextNesting]_vars

\* C11: every contour of the nesting tree is in exactly one returned layer,
\* exactly once, and that layer's index is the contour's depth; an empty tree
\* gives no layer and no returned layer is empty.
C11_LayerIsDepth ==
    op = "sortByNesting" =>
        /\ \A node \in Nodes(tree) :
              \A k \in 1..Len(ret) :
                  Count(ret[k], Contour(tree, node)) =
                      (IF k = Depth(tree, node) + 1 THEN 1 ELSE 0)
        /\ \A node \in Nodes(tree) : Depth(tree, node) + 1 <= Len(ret)
        /\ \A k \in 1..Len(ret) :
              /\ ret[k] # <<>>
              /\ \A c \in Range(ret[k]) : \E node \in Nodes(tree) : c = Contour(tree, node)
        /\ (tree = <<>> => ret = <<>>)

\* A tree with an island in a hole and a second shell was sorted in three
\* layers.
C11_Witness ==
    /\ op = "sortByNesting"
    /\ Len(ret) = 3
    /\ Len(ret[1]) = 2
    /\ \E node \in Nodes(tree) : Depth(tree, node) = 2 /\ Contour(tree, node) \in Range(ret[3])

----------------------------------------------------------------------------
(* Index-based decomposition: splitIntoPartsView                           *)

RECURSIVE splitIntoPartsView_processPolyTreeNode(_, _, _), SIPV_Childs(_, _, _, _),
          SIPV_Holes(_, _, _, _, _)

\* A variant of the inner loop that stores the index after the contour was
\* appended to reordered.
RECURSIVE SIPV_HolesIndexAfterPush(_, _, _, _, _)
SIPV_HolesIndexAfterPush(t, hs, i, pos, st) ==
    IF i > Len(hs) THEN st
    ELSE LET grown == Append(st.reordered, Contour(t, hs[i]))
             pushed == [partsView |-> [st.partsView EXCEPT ![pos] = Append(@, Len(grown))],
                        reordered |-> grown]
         IN  SIPV_HolesIndexAfterPush(t, hs, i + 1, pos,
                 splitIntoPartsView_processPolyTreeNode(t, hs[i], pushed))

\* The inner loop over child->Childs from position i on: the hole's index
\* (reordered.size() before it is appended) goes to partsView[pos], its
\* contour to reordered, and the walk recurses into it.
SIPV_Holes(t, hs, i, pos, st) ==
    IF i > Len(hs) THEN st
    ELSE LET pushed == [partsView |-> [st.partsView EXCEPT
                                           ![pos] = Append(@, Len(st.reordered))],
                        reordered |-> Append(st.reordered, Contour(t, hs[i]))]
         IN  SIPV_Holes(t, hs, i + 1, pos,
                        splitIntoPartsView_processPolyTreeNode(t, hs[i], pushed))

\* The outer loop over node->Childs from position n on: a new list in
\* partsView, opened with the index of the child's contour.
SIPV_Childs(t, cs, n, st) ==
    IF n > Len(cs) THEN st
    ELSE LET pos == Len(st.partsView) + 1
             started == [partsView |-> Append(st.partsView, <<Len(st.reordered)>>),
                         reordered |-> Append(st.reordered, Contour(t, cs[n]))]
         IN  SIPV_Childs(t, cs, n + 1, SIPV_Holes(t, Childs(t, cs[n]), 1, pos, started))

splitIntoPartsView_processPolyTreeNode(t, node, st) ==
    SIPV_Childs(t, Childs(t, node), 1, st)

\* splitIntoPartsView: the index lists are returned, reordered replaces the
\* receiver.
splitIntoPartsView(unionAll) ==
    /\ op = "init"
    /\ LET st == splitIntoPartsView_processPolyTreeNode(tree, 0,
                     [partsView |-> <<>>, reordered |-> <<>>])
       IN  /\ ret' = st.partsView
           /\ polys' = st.reordered
    /\ arg' = [unionAll |-> unionAll]
    /\ op' = "splitIntoPartsView"
    /\ prev' = polys
    /\ UNCHANGED <<kept, tree, shape_type, calls>>

NextPartsView ==
    \E u \in BOOLEAN : splitIntoPartsView(u)

SpecPartsView == InitParts /\ [][NextPartsView]_vars

\* The nodes below node in depth-first order, a node before its subtree.
RECURSIVE PreOrder(_, _), PreOrderOf(_, _, _)
PreOrder(t, node) == PreOrderOf(t, Childs(t, node), 1)
PreOrderOf(t, cs, n) ==
    IF n > Len(cs) THEN <<>>
    ELSE <<cs[n]>> \o PreOrder(t, cs[n]) \o PreOrderOf(t, cs, n + 1)

\* C12: after splitIntoPartsView every stored index is a position of the
\* reordered set that replaced the receiver, every position is in exactly
\* one list exactly once, every list is non-empty and starts with an outer
\* contour followed by that contour's holes, and the reordered set is the
\* tree's contours in depth-first order.
C12_ViewIndicesValid ==
    op = "splitIntoPartsView" =>
        /\ \A k \in 1..Len(ret) : \A j \in 1..Len(ret[k]) : ret[k][j] \in 0..(Len(polys) - 1)
        /\ \A i \in 0..(Len(polys) - 1) : Count(Flatten(ret), i) = 1
        /\ \A k \in 1..Len(ret) :
              /\ ret[k] # <<>>
              /\ \E node \in OuterNodes(tree) :
                    /\ At(polys, ret[k][1]) = Contour(tree, node)
                    /\ Len(ret[k]) = 1 + Len(Childs(tree, node))
                    /\ \A j \in 1..Len(Childs(tree, node)) :
                          At(polys, ret[k][j + 1]) = Contour(tree, Childs(tree, node)[j])
        /\ polys = [i \in 1..Len(tree) |-> Contour(tree, PreOrder(tree, 0)[i])]

\* A tree with an island in a hole was split: the island's list comes after
\* the list of the shell around it and holds a later position.
C12_Witness ==
    /\ op = "splitIntoPartsView"
    /\ Len(ret) >= 2
    /\ Len(ret[1]) >= 2
    /\ \E node \in Nodes(tree) : Depth(tree, node) = 2
    /\ polys # prev

----------------------------------------------------------------------------
(* Small-feature filtering: removeSmallAreas                               *)

MaxAreaSet == 4

\* The contours removeSmallAreas is run on.
AreaBigOutline == Rect(0, 0, 8, 8)                   \* area 64
AreaSmallOutline == Rect(10, 0, 13, 3)               \* area 9
AreaTinyOutline == Rect(1, 1, 3, 3)                  \* area 4, within the big outline
AreaBigHole == Reverse(Rect(1, 1, 7, 7))             \* area -36
AreaSmallHoleInSmall == Reverse(Rect(11, 1, 12, 2))  \* area -1, within the small outline
AreaSmallHoleInBig == Reverse(Rect(4, 4, 6, 6))      \* area -4, within the big outline only

AreaShapes ==
    {AreaBigOutline, AreaSmallOutline, AreaTinyOutline, AreaBigHole, AreaSmallHoleInSmall,
     AreaSmallHoleInBig}

AreaThresholds == {0, 3, 20}

\* std::abs(INT2MM2(ClipperLib::Area(poly))) < min_area_size
AreaBelow(poly, min_area_size) == Abs(Area2(poly)) < 2 * min_area_size

\* Polygon::inside(p) with border_result = false.
PolygonInside(poly, p) == PointInPolygon(p, poly) = 1

\* *to = std::move(*from) on the elements of the vector, 0-based: the source
\* is left empty.
MoveElement(v, to, from) ==
    IF to = from THEN [v EXCEPT ![to + 1] = <<>>]
    ELSE [v EXCEPT ![to + 1] = v[from + 1], ![from + 1] = <<>>]

SwapElements(v, a, b) == [v EXCEPT ![a + 1] = v[b + 1], ![b + 1] = v[a + 1]]

\* A variant of the loop that steps on after a replacement.
RECURSIVE RSA_AllSkipSwappedIn(_, _, _, _)
RSA_AllSkipSwappedIn(v, it, new_end, min_area_size) ==
    IF it >= new_end THEN [v |-> v, new_end |-> new_end]
    ELSE IF AreaBelow(At(v, it), min_area_size)
         THEN RSA_AllSkipSwappedIn(MoveElement(v, it, new_end - 1), it + 1, new_end - 1,
                                   min_area_size)
         ELSE RSA_AllSkipSwappedIn(v, it + 1, new_end, min_area_size)

\* remove_holes: the loop from it on; a small polygon is replaced by the one
\* before new_end, which is examined next.
RECURSIVE RSA_All(_, _, _, _)
RSA_All(v, it, new_end, min_area_size) ==
    IF it >= new_end THEN [v |-> v, new_end |-> new_end]
    ELSE IF AreaBelow(At(v, it), min_area_size)
         THEN RSA_All(MoveElement(v, it, new_end - 1), it, new_end - 1, min_area_size)
         ELSE RSA_All(v, it + 1, new_end, min_area_size)

\* !remove_holes, first loop from it on: small outlines are swapped behind
\* new_end, the positions of small holes are recorded.
RECURSIVE RSA_Outlines(_, _, _, _, _)
RSA_Outlines(v, it, new_end, small_holes, min_area_size) ==
    IF it >= new_end THEN [v |-> v, new_end |-> new_end, small_holes |-> small_holes]
    ELSE IF AreaBelow(At(v, it), min_area_size)
         THEN IF Area2(At(v, it)) >= 0
              THEN IF it < new_end - 1
                   THEN RSA_Outlines(SwapElements(v, new_end - 1, it), it, new_end - 1,
                                     small_holes, min_area_size)
                   ELSE [v |-> v, new_end |-> new_end - 1, small_holes |-> small_holes]
              ELSE RSA_Outlines(v, it + 1, new_end, Append(small_holes, it), min_area_size)
         ELSE RSA_Outlines(v, it + 1, new_end, small_holes, min_area_size)

\* A variant of the second loop that tests the hole against every polygon of
\* the vector.
RECURSIVE RSA_HolesAnyOutline(_, _, _, _, _)
RSA_HolesAnyOutline(v, small_holes, k, new_end, removed_outlines_start) ==
    IF k < 1 THEN [v |-> v, new_end |-> new_end]
    ELSE LET hole == small_holes[k]
         IN  IF \E outline \in 0..(Len(v) - 1) :
                    PolygonInside(At(v, outline), At(At(v, hole), 0))
             THEN RSA_HolesAnyOutline(MoveElement(v, hole, new_end - 1), small_holes, k - 1,
                                      new_end - 1, removed_outlines_start)
             ELSE RSA_HolesAnyOutline(v, small_holes, k - 1, new_end,
                                      removed_outlines_start)

\* !remove_holes, second loop, from the k-th recorded hole down: a hole whose
\* first point is inside a removed outline is replaced by the polygon before
\* new_end.
RECURSIVE RSA_Holes(_, _, _, _, _)
RSA_Holes(v, small_holes, k, new_end, removed_outlines_start) ==
    IF k < 1 THEN [v |-> v, new_end |-> new_end]
    ELSE LET hole == small_holes[k]
         IN  IF \E outline \in removed_outlines_start..(Len(v) - 1) :
                    PolygonInside(At(v, outline), At(At(v, hole), 0))
             THEN RSA_Holes(MoveElement(v, hole, new_end - 1), small_holes, k - 1,
                            new_end - 1, removed_outlines_start)
             ELSE RSA_Holes(v, small_holes, k - 1, new_end, removed_outlines_start)

RemoveSmallAreasResult(v, min_area_size, remove_holes) ==
    LET r == IF remove_holes THEN RSA_All(v, 0, Len(v), min_area_size)
             ELSE LET o == RSA_Outlines(v, 0, Len(v), <<>>, min_area_size)
                  IN  RSA_Holes(o.v, o.small_holes, Len(o.small_holes), o.new_end, o.new_end)
    IN  SubSeq(r.v, 1, r.new_end)

removeSmallAreas(min_area_size, remove_holes) ==
    /\ op = "init"
    /\ polys' = RemoveSmallAreasResult(polys, min_area_size, remove_holes)
    /\ prev' = polys
    /\ arg' = [min_area_size |-> min_area_size, remove_holes |-> remove_holes]
    /\ ret' = <<>>
    /\ op' = "removeSmallAreas"
    /\ UNCHANGED <<kept, tree, shape_type, calls>>

InitAreas ==
    /\ polys \in SeqUpTo(AreaShapes, MaxAreaSet)
    /\ prev = <<>>
    /\ arg = <<>>
    /\ ret = <<>>
    /\ kept = <<>>
    /\ tree = <<>>
    /\ shape_type = "Closed"
    /\ calls = 0
    /\ op = "init"

NextAreas ==
    \E a \in AreaThresholds, h \in BOOLEAN : removeSmallAreas(a, h)

SpecAreas == InitAreas /\ [][NextAreas]_vars

\* The outlines dropped for their area.
DroppedOutlines(input, min_area_size) ==
    {c \in Range(input) : Area2(c) >= 0 /\ AreaBelow(c, min_area_size)}

\* The small holes whose first vertex is inside a dropped outline.
DroppedHoles(input, min_area_size) ==
    {c \in Range(input) :
        /\ Area2(c) < 0
        /\ AreaBelow(c, min_area_size)
        /\ \E o \in DroppedOutlines(input, min_area_size) : PolygonInside(o, c[1])}

\* C13: with removeHoles = false the result is, as a multiset, the input
\* without the outlines below minArea and without the holes below minArea
\* whose first vertex is inside one of those outlines; every other contour is
\* kept exactly as often as it occurs.
C13_SmallOutlinesAndTheirHolesDropped ==
    (op = "removeSmallAreas" /\ ~arg.remove_holes) =>
        \A c \in Range(prev) \cup Range(polys) :
            Count(polys, c) =
                (IF c \in DroppedOutlines(prev, arg.min_area_size)
                        \cup DroppedHoles(prev, arg.min_area_size)
                 THEN 0 ELSE Count(prev, c))

\* A small outline went with the small hole inside it, while a small hole of
\* a surviving outline stayed.
C13_Witness ==
    /\ op = "removeSmallAreas"
    /\ ~arg.remove_holes
    /\ AreaSmallOutline \in DroppedOutlines(prev, arg.min_area_size)
    /\ AreaSmallHoleInSmall \in Range(prev)
    /\ AreaSmallHoleInSmall \notin Range(polys)
    /\ AreaSmallHoleInBig \in Range(polys)
    /\ AreaBelow(AreaSmallHoleInBig, arg.min_area_size)

\* C14: with removeHoles = true the result is, as a multiset, the input
\* contours whose absolute area is at least minArea.
C14_ExactlyTheLargeContours ==
    (op = "removeSmallAreas" /\ arg.remove_holes) =>
        \A c \in Range(prev) \cup Range(polys) :
            Count(polys, c) =
                (IF AreaBelow(c, arg.min_area_size) THEN 0 ELSE Count(prev, c))

\* Two small contours in a row were replaced from the back and two large
\* ones stayed.
C14_Witness ==
    /\ op = "removeSmallAreas"
    /\ arg.remove_holes
    /\ Len(prev) = 4
    /\ AreaBelow(prev[1], arg.min_area_size)
    /\ AreaBelow(prev[4], arg.min_area_size)
    /\ ~AreaBelow(prev[2], arg.min_area_size)
    /\ Len(polys) = 2

----------------------------------------------------------------------------
(* Per-polygon simplification wrappers: smooth, smooth2, smooth_outward    *)

MaxSmoothSet == 2

\* The polygons the wrappers are run on, by number of points, and what the
\* single-polygon primitives (Polygon::smooth, Polygon::smooth2,
\* Polygon::smooth_outward, which are not part of this file) may write to
\* the polygon they are handed.
SmoothDot == <<(<<0, 0>>)>>
SmoothSegment == <<(<<0, 0>>), (<<4, 0>>)>>
SmoothTriangle == <<(<<0, 0>>), (<<4, 0>>), (<<0, 4>>)>>
SmoothSquare == Rect(0, 0, 4, 4)
SmoothHexagon == <<(<<1, 0>>), (<<3, 0>>), (<<4, 2>>), (<<3, 4>>), (<<1, 4>>), (<<0, 2>>)>>

SmoothInputs == {<<>>, SmoothDot, SmoothSegment, SmoothTriangle, SmoothSquare, SmoothHexagon}

PrimitiveResults == {<<>>, SmoothDot, SmoothSegment, SmoothTriangle, SmoothSquare}

SmoothMinAreas == {0, 20}

\* Polygons::smooth_outward from polygon i on; result[i] is what the primitive
\* writes for polygon i, origin the input positions of the polygons of ret.
RECURSIVE SmoothOutwardLoop(_, _, _, _)
SmoothOutwardLoop(ps, i, result, acc) ==
    IF i > Len(ps) THEN acc
    ELSE IF Len(ps[i]) < 3 THEN SmoothOutwardLoop(ps, i + 1, result, acc)
    ELSE IF Len(ps[i]) = 3
         THEN SmoothOutwardLoop(ps, i + 1, result,
                  [ret |-> Append(acc.ret, ps[i]), origin |-> Append(acc.origin, i),
                   thrown |-> FALSE])
    ELSE IF Len(result[i]) < 3
         THEN SmoothOutwardLoop(ps, i + 1, result, acc)
         ELSE SmoothOutwardLoop(ps, i + 1, result,
                  [ret |-> Append(acc.ret, result[i]), origin |-> Append(acc.origin, i),
                   thrown |-> FALSE])

\* Polygons::smooth from polygon i on.  back.resize(back.size() - 1) takes
\* the last point off the polygon the primitive wrote; on an empty polygon
\* the size wraps around and resize throws std::length_error.
RECURSIVE SmoothLoop(_, _, _, _)
SmoothLoop(ps, i, result, acc) ==
    IF i > Len(ps) THEN acc
    ELSE IF Len(ps[i]) < 3 THEN SmoothLoop(ps, i + 1, result, acc)
    ELSE IF Len(ps[i]) = 3
         THEN SmoothLoop(ps, i + 1, result,
                  [ret |-> Append(acc.ret, ps[i]), origin |-> Append(acc.origin, i),
                   thrown |-> FALSE])
    ELSE IF Len(result[i]) < 3
         THEN IF Len(result[i]) = 0
              THEN [ret |-> Append(acc.ret, result[i]), origin |-> Append(acc.origin, i),
                    thrown |-> TRUE]
              ELSE SmoothLoop(ps, i + 1, result,
                       [ret |-> Append(acc.ret, SubSeq(result[i], 1, Len(result[i]) - 1)),
                        origin |-> Append(acc.origin, i), thrown |-> FALSE])
         ELSE SmoothLoop(ps, i + 1, result,
                  [ret |-> Append(acc.ret, result[i]), origin |-> Append(acc.origin, i),
                   thrown |-> FALSE])

\* Polygons::smooth2 from polygon i on.
RECURSIVE Smooth2Loop(_, _, _, _, _)
Smooth2Loop(ps, i, result, min_area, acc) ==
    IF i > Len(ps) THEN acc
    ELSE IF Len(ps[i]) = 0 THEN Smooth2Loop(ps, i + 1, result, min_area, acc)
    ELSE IF Area2(ps[i]) < 2 * min_area \/ Len(ps[i]) <= 5
         THEN Smooth2Loop(ps, i + 1, result, min_area,
                  [ret |-> Append(acc.ret, ps[i]), origin |-> Append(acc.origin, i),
                   thrown |-> FALSE])
    ELSE IF Len(ps[i]) < 4
         THEN Smooth2Loop(ps, i + 1, result, min_area,
                  [ret |-> Append(acc.ret, ps[i]), origin |-> Append(acc.origin, i),
                   thrown |-> FALSE])
         ELSE Smooth2Loop(ps, i + 1, result, min_area,
                  [ret |-> Append(acc.ret, result[i]), origin |-> Append(acc.origin, i),
                   thrown |-> FALSE])

NoneYet == [ret |-> <<>>, origin |-> <<>>, thrown |-> FALSE]

\* What the primitives write, one polygon per polygon of the set.
PrimitiveOutputs == [1..Len(polys) -> PrimitiveResults]

smooth_outward ==
    /\ op = "init"
    /\ \E result \in PrimitiveOutputs :
          LET r == SmoothOutwardLoop(polys, 1, result, NoneYet)
          IN  /\ ret' = r.ret
              /\ kept' = r.origin
              /\ arg' = [result |-> result]
    /\ op' = "smooth_outward"
    /\ prev' = polys
    /\ UNCHANGED <<polys, tree, shape_type, calls>>

smooth ==
    /\ op = "init"
    /\ \E result \in PrimitiveOutputs :
          LET r == SmoothLoop(polys, 1, result, NoneYet)
          IN  /\ ret' = r.ret
              /\ kept' = r.origin
              /\ arg' = [result |-> result]
              /\ op' = IF r.thrown THEN "smooth: length_error" ELSE "smooth"
    /\ prev' = polys
    /\ UNCHANGED <<polys, tree, shape_type, calls>>

smooth2(min_area) ==
    /\ op = "init"
    /\ \E result \in PrimitiveOutputs :
          LET r == Smooth2Loop(polys, 1, result, min_area, NoneYet)
          IN  /\ ret' = r.ret
              /\ kept' = r.origin
              /\ arg' = [result |-> result, min_area |-> min_area]
    /\ op' = "smooth2"
    /\ prev' = polys
    /\ UNCHANGED <<polys, tree, shape_type, calls>>

InitSmooth ==
    /\ polys \in SeqUpTo(SmoothInputs, MaxSmoothSet)
    /\ prev = <<>>
    /\ arg = <<>>
    /\ ret = <<>>
    /\ kept = <<>>
    /\ tree = <<>>
    /\ shape_type = "Closed"
    /\ calls = 0
    /\ op = "init"

NextSmooth ==
    \/ smooth_outward
    \/ smooth
    \/ \E a \in SmoothMinAreas : smooth2(a)

SpecSmooth == InitSmooth /\ [][NextSmooth]_vars

\* Every returned polygon has at least 3 points, no input polygon with fewer
\* than 3 points contributes one, and a triangle contributes itself.
WrapperKeepsThreePoints ==
    /\ \A k \in 1..Len(ret) : Len(ret[k]) >= 3
    /\ \A k \in 1..Len(kept) : Len(prev[kept[k]]) >= 3
    /\ \A i \in 1..Len(prev) :
          Len(prev[i]) = 3 =>
              \E k \in 1..Len(kept) :
                  /\ kept[k] = i
                  /\ ret[k] = prev[i]
                  /\ \A m \in 1..Len(kept) : kept[m] = i => m = k

\* C15: whatever the primitive returns, every polygon of the set returned
\* by smooth, smooth2 and smooth_outward has at least 3 points: inputs with
\* fewer than 3 points contribute nothing, triangles are copied unchanged,
\* and a primitive result with fewer than 3 points is discarded.
C15_WrappersReturnThreePoints ==
    op \in {"smooth", "smooth2", "smooth_outward"} => WrapperKeepsThreePoints

\* The same for smooth_outward alone.
C15_SmoothOutwardAlone ==
    op = "smooth_outward" => WrapperKeepsThreePoints

\* The same for smooth alone and for smooth2 alone.
C15_SmoothAlone ==
    op = "smooth" => WrapperKeepsThreePoints

C15_Smooth2Alone ==
    op = "smooth2" => WrapperKeepsThreePoints

----------------------------------------------------------------------------
(* Degenerate-vertex removal: which lines are dropped                      *)

\* C16: on closed polygons a line the pass changed is left with at least 3
\* vertices or is gone from the set, and the loop body ran exactly once on
\* every line of the input, the one moved into a freed slot included; on
\* open polylines no line is removed and each keeps its first and its last
\* vertex.
C16_DropRule ==
    op = "removeDegenerateVerts" =>
        /\ Len(kept) = Len(polys)
        /\ \A k \in 1..Len(kept) : kept[k] \in 1..Len(prev) /\ Count(kept, kept[k]) = 1
        /\ \A i \in 1..Len(prev) : Count(ret, i) = 1
        /\ Len(ret) = Len(prev)
        /\ shape_type = "Closed" =>
              \A k \in 1..Len(polys) : polys[k] # prev[kept[k]] => Len(polys[k]) >= 3
        /\ shape_type = "Open" =>
              /\ kept = [k \in 1..Len(prev) |-> k]
              /\ \A k \in 1..Len(polys) :
                    /\ Len(polys[k]) >= 1
                    /\ polys[k][1] = prev[k][1]
                    /\ polys[k][Len(polys[k])] = prev[k][Len(prev[k])]

\* A closed polygon collapsed and was removed, the last polygon moved into
\* its slot, was changed there and stayed with 3 vertices or more.
C16_Witness ==
    /\ op = "removeDegenerateVerts"
    /\ shape_type = "Closed"
    /\ Len(prev) = 3
    /\ Len(polys) = 2
    /\ kept[1] = 3
    /\ polys[1] # prev[3]
    /\ ret = <<1, 3, 2>>

\* An open polyline lost an inner vertex and was kept with 2 vertices.
C16_WitnessPolyline ==
    /\ op = "removeDegenerateVerts"
    /\ shape_type = "Open"
    /\ \E k \in 1..Len(polys) : Len(prev[k]) = 3 /\ Len(polys[k]) = 2

----------------------------------------------------------------------------
(* Corner-shortcut smoothing: actions::smooth_fn of utils/actions/smooth.h  *)
(* A sequence of n points lies at the locations 0..n-1 of its storage; the  *)
(* scan forms its windows by pointer arithmetic, so the model keeps the     *)
(* three locations n, n+1, n+2 behind the sequence as well.                 *)

MaxSmoothFnLen == 5

SmoothFnPoints == {<<0, 0>>, <<1, 0>>, <<3, 0>>, <<1, 1>>}

\* max_resolution, smooth_distance (not negative) and fluid_angle.
SmoothFnResolutions == {1, 2}
SmoothFnDistances == {0, 1}
SmoothFnAngles == {0, 30}

\* What the storage behind the sequence may hold when the scan reads it.
SmoothFnBeyond == {[l \in 1..3 |-> g] : g \in {<<0, 0>>, <<3, 0>>}}

dotProduct(p0, p1) == X(p0) * X(p1) + Y(p0) * Y(p1)

\* cos(k degrees)^2 in millionths, rounded up, for k = 1..90.
Cos2Deg ==
    <<
       999696, 998783, 997261, 995135, 992404, 989074, 985148, 980631, 975529, 969847,
       963592, 956773, 949398, 941474, 933013, 924025, 914519, 904509, 894006, 883023,
       871573, 859670, 847330, 834566, 821394, 807831, 793893, 779597, 764960, 750000,
       734736, 719186, 703369, 687304, 671011, 654509, 637819, 620961, 603956, 586825,
       569587, 552265, 534879, 517450, 500000, 482551, 465122, 447736, 430414, 413176,
       396045, 379040, 362182, 345492, 328990, 312697, 296632, 280815, 265265, 250000,
       235041, 220404, 206108, 192170, 178607, 165435, 152671, 140331, 128428, 116978,
       105995, 95492, 85482, 75976, 66988, 58527, 50603, 43228, 36409, 30154,
       24472, 19370, 14853, 10927, 7597, 4866, 2740, 1218, 305, 0
    >>

\* The angle in degrees, cut to the integer type of dotProduct's result:
\* the number of whole degrees k with cos(k) >= cos(angle), in exact
\* arithmetic.  In doubles std::acos gives 179 for some opposite vectors of
\* irrational length where this gives 180; on the vectors of the sequences
\* below that changes no comparison against a fluid angle of SmoothFnAngles.
angleBetweenVectors(vec0, vec1) ==
    LET d == dotProduct(vec0, vec1)
        m == vSize2(vec0) * vSize2(vec1)
        acute == Cardinality({k \in 1..90 : Cos2Deg[k] * m >= d * d * 1000000})
        whole == 4 * d * d \in {0, m, 2 * m, 3 * m, 4 * m}
    IN  IF vSize2(vec0) = 0 \/ vSize2(vec1) = 0 THEN 90
        ELSE IF d >= 0 THEN acute
        ELSE IF whole THEN 180 - acute
        ELSE 179 - acute

withinDeviation(p0, p1, p2, p3, fluid_angle) ==
    LET ab == Minus(p1, p0)
        bc == Minus(p2, p1)
        cd == Minus(p3, p2)
    IN  Abs(angleBetweenVectors(ab, bc) - angleBetweenVectors(ab, cd)) < fluid_angle

\* c -= d / (hypot(d, e) * smooth_distance) on an integer coordinate c: the
\* quotient q has the sign of d and |q| <= 1 / smooth_distance, and the
\* difference is cut towards zero when it is stored.
ShiftSub(c, d, e, smooth_distance) ==
    IF d = 0 THEN c
    ELSE IF smooth_distance = 1 /\ e = 0 THEN (IF d > 0 THEN c - 1 ELSE c + 1)
    ELSE IF d > 0 THEN (IF c >= 1 THEN c - 1 ELSE c)
    ELSE (IF c >= 0 THEN c ELSE c + 1)

\* c += d / (hypot(d, e) * smooth_distance).
ShiftAdd(c, d, e, smooth_distance) == ShiftSub(c, 0 - d, e, smooth_distance)

\* hypot(v) > shift_smooth_distance, with shift_smooth_distance = 2 * smooth_distance >= 0.
FartherThanShift(v, smooth_distance) ==
    vSize2(v) > (2 * smooth_distance) * (2 * smooth_distance)

CanRemoveAlways(size, to_remove) == TRUE

\* size - to_remove.size() > 2
CanRemove(size, to_remove) == size - Cardinality(to_remove) > 2

\* The test on the middle segment of a window.
ShortMiddleSegment(p1, p2, max_resolution) ==
    Abs(dotProduct(p1, p2)) < max_resolution * max_resolution

\* The part of the loop body behind the test of line 76, for the pointer
\* p0 = location a: short and acts are the values of the two conjuncts of
\* that test.  st holds the storage mem (location l at index l + 1), the set
\* to_remove of locations and the trace of the windows examined.
SmoothFnAct(st, a, n, smooth_distance, short, acts) ==
    LET size == n - 1
        p0 == st.mem[a + 1]
        p1 == st.mem[a + 2]
        p2 == st.mem[a + 3]
        p3 == st.mem[a + 4]
        shift_p1 == FartherThanShift(Minus(p1, p0), smooth_distance)
        shift_p2 == FartherThanShift(Minus(p3, p2), smooth_distance)
        new_p1 == <<ShiftSub(X(p1), X(p1) - X(p0), Y(p1) - Y(p0), smooth_distance),
                    ShiftSub(Y(p1), Y(p1) - Y(p0), X(p1) - X(p0), smooth_distance)>>
        new_p2 == <<ShiftAdd(X(p2), X(p3) - X(p2), Y(p3) - Y(p2), smooth_distance),
                    ShiftAdd(Y(p2), Y(p3) - Y(p2), X(p3) - X(p2), smooth_distance)>>
        rm1 == IF acts /\ ~shift_p1 /\ CanRemove(size, st.to_remove)
               THEN st.to_remove \cup {a + 1} ELSE st.to_remove
        rm2 == IF acts /\ ~shift_p2 /\ CanRemove(size, rm1)
               THEN rm1 \cup {a + 2} ELSE rm1
        mem1 == IF acts /\ shift_p1 THEN [st.mem EXCEPT ![a + 2] = new_p1] ELSE st.mem
        mem2 == IF acts /\ shift_p2 THEN [mem1 EXCEPT ![a + 3] = new_p2] ELSE mem1
        read == {a + 1, a + 2} \cup (IF short THEN {a, a + 3} ELSE {})
        written == (IF acts /\ shift_p1 THEN {a + 1} ELSE {})
                      \cup (IF acts /\ shift_p2 THEN {a + 2} ELSE {})
    IN  [mem |-> mem2,
         to_remove |-> rm2,
         trace |-> Append(st.trace,
                     [window |-> <<a, a + 1, a + 2, a + 3>>,
                      p1 |-> p1, p2 |-> p2,
                      acts |-> acts,
                      read |-> read,
                      written |-> written,
                      marked |-> rm2 \ st.to_remove])]

\* One iteration of the loop body for the pointer p0 = location a.  The two
\* conjuncts of the test are computed once and handed on as values.
SmoothFnBody(st, a, n, max_resolution, smooth_distance, fluid_angle) ==
    CHOOSE r \in
        {SmoothFnAct(st, a, n, smooth_distance, short, acts) :
            short \in {ShortMiddleSegment(st.mem[a + 2], st.mem[a + 3], max_resolution)},
            acts \in {/\ ShortMiddleSegment(st.mem[a + 2], st.mem[a + 3], max_resolution)
                      /\ ~withinDeviation(st.mem[a + 1], st.mem[a + 2],
                                          st.mem[a + 3], st.mem[a + 4], fluid_angle)}} : TRUE

\* The pointers the loop runs over: the locations of the sequence followed
\* by its first two once more, each skipped if it is in to_remove when the
\* iteration reaches it.  The break test p0 + 2 = &front holds for no
\* location of the sequence.
SmoothFnPointers(n) == [w \in 1..(n + 2) |-> IF w <= n THEN w - 1 ELSE w - n - 1]

RECURSIVE SmoothFnScan(_, _, _, _, _, _)
SmoothFnScan(st, w, n, max_resolution, smooth_distance, fluid_angle) ==
    IF w > n + 2 THEN st
    ELSE LET a == SmoothFnPointers(n)[w]
         IN  IF a + 2 = 0 THEN st
             ELSE IF a \in st.to_remove
             THEN SmoothFnScan(st, w + 1, n, max_resolution, smooth_distance, fluid_angle)
             ELSE CHOOSE r \in
                     {SmoothFnScan(nx, w + 1, n, max_resolution, smooth_distance, fluid_angle) :
                         nx \in {SmoothFnBody(st, a, n, max_resolution, smooth_distance,
                                              fluid_angle)}} : TRUE

\* ranges::actions::remove_if: the sequence without the locations in
\* to_remove, the others in their order.
SmoothFnRemoveIf(st, n) ==
    LET left == {l \in 0..(n - 1) : l \notin st.to_remove}
        Pick(k) == CHOOSE l \in left : Cardinality({j \in left : j < l}) = k - 1
    IN  [st EXCEPT !.mem = [k \in 1..Cardinality(left) |-> st.mem[Pick(k) + 1]]]

\* smooth_fn::operator() on the sequence rng, with beyond the content of the
\* three locations behind it.
smooth_fn(rng, beyond, max_resolution, smooth_distance, fluid_angle) ==
    LET n == Len(rng)
        start == [mem |-> rng \o beyond, to_remove |-> {}, trace |-> <<>>]
    IN  IF smooth_distance = 0 \/ n - 1 < 3
        THEN [start EXCEPT !.mem = rng]
        ELSE CHOOSE r \in
                {SmoothFnRemoveIf(st, n) :
                    st \in {SmoothFnScan(start, 1, n, max_resolution, smooth_distance,
                                         fluid_angle)}} : TRUE

\* The locations a window touches that are not locations of the sequence.
OutsideSequence(w, n) == {l \in w.read \cup w.written : l < 0 \/ l >= n}

\* The windows examined up to and including the first one that touches a
\* location outside the sequence.
UpToFirstOutside(trace, n) ==
    LET bad == {k \in 1..Len(trace) : OutsideSequence(trace[k], n) # {}}
    IN  IF bad = {} THEN trace
        ELSE SubSeq(trace, 1, CHOOSE k \in bad : \A j \in bad : k <= j)

\* The call returns: whatever it read behind the sequence, it went on.
smooth_fn_call ==
    /\ op = "init"
    /\ \E beyond \in SmoothFnBeyond :
          \E r \in {smooth_fn(polys[1], beyond, arg[1], arg[2], arg[3])} :
              /\ polys' = <<r.mem>>
              /\ ret' = r.trace
              /\ kept' = [l \in 1..(Len(polys[1]) + 3) |-> (l - 1) \in r.to_remove]
    /\ prev' = polys
    /\ op' = "smooth_fn"
    /\ UNCHANGED <<arg, tree, shape_type, calls>>

\* The call stops at its first access outside the sequence.
smooth_fn_fault ==
    /\ op = "init"
    /\ \E beyond \in SmoothFnBeyond :
          \E r \in {smooth_fn(polys[1], beyond, arg[1], arg[2], arg[3])} :
              \E t \in {UpToFirstOutside(r.trace, Len(polys[1]))} :
                  /\ t # <<>>
                  /\ OutsideSequence(t[Len(t)], Len(polys[1])) # {}
                  /\ ret' = t
    /\ prev' = polys
    /\ op' = "smooth_fn: out of range"
    /\ UNCHANGED <<polys, arg, kept, tree, shape_type, calls>>

InitSmoothFn ==
    /\ polys \in {<<rng>> : rng \in SeqUpTo(SmoothFnPoints, MaxSmoothFnLen)}
    /\ arg \in SmoothFnResolutions \X SmoothFnDistances \X SmoothFnAngles
    /\ prev = <<>>
    /\ ret = <<>>
    /\ kept = <<>>
    /\ tree = <<>>
    /\ shape_type = "Closed"
    /\ calls = 0
    /\ op = "init"

NextSmoothFn ==
    \/ smooth_fn_call
    \/ smooth_fn_fault

SpecSmoothFn == InitSmoothFn /\ [][NextSmoothFn]_vars

\* C17: a call that returns leaves at least min(n, 3) points, and with
\* smooth_distance 0 or fewer than 4 points it returns the sequence as it
\* was.
C17_KeepsThreePoints ==
    op = "smooth_fn" =>
        /\ Len(prev[1]) >= 3 => Len(polys[1]) >= 3
        /\ Len(prev[1]) < 3 => Len(polys[1]) = Len(prev[1])
        /\ (arg[2] = 0 \/ Len(prev[1]) < 4) => polys[1] = prev[1]

\* Two points of a 5-point sequence were marked and removed, 3 are left.
C17_Witness ==
    /\ op = "smooth_fn"
    /\ Len(prev[1]) = 5
    /\ Len(polys[1]) = 3
    /\ \E k \in 1..Len(ret) : ret[k].marked # {}

\* C18: every window the scan examines is (i, i+1, i+2, i+3) modulo the
\* length of the sequence, and the scan touches no location outside the
\* sequence.
C18_WindowsCyclicInRange ==
    LET n == Len(prev[1])
    IN  op \in {"smooth_fn", "smooth_fn: out of range"} =>
           \A k \in 1..Len(ret) :
              /\ OutsideSequence(ret[k], n) = {}
              /\ \A j \in 1..4 : ret[k].window[j] = (ret[k].window[1] + j - 1) % n

\* C19: a window's p1 and p2 are moved or marked only if the squared length
\* of the segment p1-p2 is below max_resolution squared.
C19_ActsOnlyOnShortSegment ==
    op \in {"smooth_fn", "smooth_fn: out of range"} =>
        \A k \in 1..Len(ret) :
            (ret[k].written # {} \/ ret[k].marked # {})
                => vSize2(Minus(ret[k].p2, ret[k].p1)) < arg[1] * arg[1]

\* C19, second half: the test on the middle segment is the same for a
\* window and for the window translated by any vector.
C19_TestTranslationInvariant ==
    op = "smooth_fn" =>
        \A k \in 1..Len(ret) : \A t \in SmoothFnPoints :
            ShortMiddleSegment(ret[k].p1, ret[k].p2, arg[1])
               = ShortMiddleSegment(<<X(ret[k].p1) + X(t), Y(ret[k].p1) + Y(t)>>,
                                    <<X(ret[k].p2) + X(t), Y(ret[k].p2) + Y(t)>>, arg[1])

----------------------------------------------------------------------------
(* The parts view against splitIntoParts                                   *)

assemblePartOuterOnly(partsView, polygons_, part_idx) ==
    IF part_idx = NO_INDEX THEN <<>>
    ELSE <<polygons_[partsView[part_idx + 1][1] + 1]>>

\* PartsView::assemblePart: the polygons of the paired set at the positions
\* of the part's list, in list order.
assemblePart(partsView, polygons_, part_idx) ==
    IF part_idx = NO_INDEX THEN <<>>
    ELSE [k \in 1..Len(partsView[part_idx + 1]) |->
             polygons_[partsView[part_idx + 1][k] + 1]]

\* assemblePart(i) for i = 0..n-1 on the view the call returned and the
\* receiver it was built on.
AssembledParts == [i \in 1..Len(ret) |-> assemblePart(ret, polys, i - 1)]

\* What splitIntoParts returns on the same input.
PartsOfSameInput == splitIntoParts_processPolyTreeNode(tree, 0, <<>>)

\* Some hole of the tree has a contour nested in it.
HoleHasIsland == \E node \in 1..Len(tree) : Depth(tree, node) >= 2

\* C20 as stated: the parts of the view, in the order of the view, are the
\* list splitIntoParts returns.
C20_ViewEqualsParts ==
    op = "splitIntoPartsView" => AssembledParts = PartsOfSameInput

\* C20 amended: the view describes the same parts as splitIntoParts returns,
\* as many and each with the same contours in the same order; the two lists
\* are in the same order exactly when no hole has a contour nested in it,
\* and otherwise the view has the part of an outer contour before the parts
\* nested in its holes while splitIntoParts has it after them.
C20_SamePartsOrderAside ==
    op = "splitIntoPartsView" =>
        /\ Len(AssembledParts) = Len(PartsOfSameInput)
        /\ \A i \in 1..Len(AssembledParts) :
              /\ Count(AssembledParts, AssembledParts[i]) = 1
              /\ Count(PartsOfSameInput, AssembledParts[i]) = 1
        /\ (AssembledParts = PartsOfSameInput) <=> ~HoleHasIsland
        /\ \A n1, n2 \in 1..Len(tree) :
              (/\ Depth(tree, n1) % 2 = 0
               /\ Depth(tree, n2) = Depth(tree, n1) + 2
               /\ tree[tree[n2]] = n1)
              => \E i, j \in 1..Len(AssembledParts) : \E k, l \in 1..Len(PartsOfSameInput) :
                    /\ AssembledParts[i][1] = Contour(tree, n1)
                    /\ AssembledParts[j][1] = Contour(tree, n2)
                    /\ PartsOfSameInput[k] = AssembledParts[i]
                    /\ PartsOfSameInput[l] = AssembledParts[j]
                    /\ i < j
                    /\ l < k

\* An outer contour with a hole that holds an island: two parts, listed in
\* opposite orders by the view and by splitIntoParts.
C20_Witness ==
    /\ op = "splitIntoPartsView"
    /\ HoleHasIsland
    /\ Len(AssembledParts) >= 2
    /\ AssembledParts # PartsOfSameInput
    /\ \E i \in 1..Len(AssembledParts) : Len(AssembledParts[i]) >= 2

----------------------------------------------------------------------------
(* findInside: the range of the result                                     *)

\* C21: findInside returns the sentinel NO_INDEX or an index smaller than
\* the number of polygons of the set, and the sentinel on an empty set.
C21_ResultIsSentinelOrIndex ==
    op = "findInside" =>
        /\ ret = NO_INDEX \/ ret \in 0..(Len(polys) - 1)
        /\ Len(polys) = 0 => ret = NO_INDEX

\* The range of the result on the sets the two loops run over.
C21_InRangeOnNonEmpty ==
    (op = "findInside" /\ Len(polys) >= 1) =>
        (ret = NO_INDEX \/ ret \in 0..(Len(polys) - 1))

\* What the call on an empty set returns: the value of "return false".
C21_EmptySetGivesZero ==
    (op = "findInside" /\ Len(polys) = 0) => ret = 0

----------------------------------------------------------------------------
(* Degenerate-vertex removal on polylines: the vertices read               *)

\* The accesses of the loop body to one polyline stay inside it: the last
\* considered index did not wrap, and every index read is below the size.
ReadsExistingVertices(a) ==
    /\ a.end_vertex < a.size
    /\ \A i \in a.read : i < a.size

\* C22: on open polylines of every length, 0, 1 and 2 included, the pass
\* reads only existing vertices, the last considered index does not wrap
\* below zero, and a polyline of fewer than 3 vertices is left unchanged.
C22_PolylineReadsInRange ==
    (shape_type = "Open" /\ op \in {"removeDegenerateVerts", "removeDegenerateVerts: out of range"}) =>
        /\ \A k \in 1..Len(arg) : ReadsExistingVertices(arg[k])
        /\ \A k \in 1..Len(polys) : Len(prev[k]) < 3 => polys[k] = prev[k]

\* The same for the polylines that have a vertex.
C22_NonEmptyPolylinesInRange ==
    (shape_type = "Open" /\ op \in {"removeDegenerateVerts", "removeDegenerateVerts: out of range"}) =>
        /\ \A k \in 1..Len(arg) : arg[k].size >= 1 => ReadsExistingVertices(arg[k])
        /\ \A k \in 1..Len(polys) : Len(prev[k]) < 3 => polys[k] = prev[k]

----------------------------------------------------------------------------
(* Move assignment of a set: termination                                   *)

\* makeConvex on the sets of catalogue polygons.
InitMoveAssign ==
    /\ polys \in SeqUpTo(HullCatalogue, MaxHullSet)
    /\ prev = <<>>
    /\ arg = <<>>
    /\ ret = <<>>
    /\ kept = <<>>
    /\ tree = <<>>
    /\ shape_type = "Closed"
    /\ calls = 0
    /\ op = "init"

\* A step of the running operator.
moveAssignStep == moveAssign \/ moveAssignStackExhausted \/ moveAssignDropped

\* An operator that has been entered goes on: the program keeps running,
\* so a step it can take is taken in the end.
SpecMoveAssign == InitMoveAssign /\ [][NextConvex]_vars /\ WF_vars(moveAssignStep)

\* C23: the move assignment of a set distinct from the receiver returns
\* after a bounded number of steps and leaves the receiver holding the
\* polygons the source held, so makeConvex, which ends with such an
\* assignment, returns.
C23_MoveAssignmentReturns ==
    (op = "operator=") ~> (op = "makeConvex" /\ polys = ret)

\* The weaker statement that the operator returns at all, whatever it
\* leaves in the receiver.
C23_MoveAssignmentEnds ==
    (op = "operator=") ~> (op = "makeConvex")

\* No step of the operator moves a polygon into the receiver.
C23_ReceiverNeverWritten ==
    [][op = "operator=" => polys' = polys]_vars

============================================================================
